---- MODULE Spec2Model ----
(***************************************************************************)
(* State-machine model of the virtualization engine (class Virtualizer of  *)
(* virtual-core): measurement cache, item-size map, memoized recomputation *)
(* pipeline, range calculation and the resize-triggered scroll             *)
(* compensation.                                                           *)
(*                                                                         *)
(* Conventions.                                                            *)
(*  - A nullable value is a sequence of length <= 1: None is <<>> and      *)
(*    Some(x) is <<x>>.                                                    *)
(*  - Arrays are 0-based in the source and 1-based here: At(s, i) is s[i]  *)
(*    of the source.                                                       *)
(*  - Every handler is an operator from an engine record to an engine      *)
(*    record (the record holds one field per variable); an action applies  *)
(*    one handler to the current state.                                    *)
(***************************************************************************)
EXTENDS Integers, Sequences, FiniteSets, TLC

VARIABLES
  options,                      \* this.options (the fields the engine reads)
  scrollElement,                \* this.scrollElement (None when detached)
  isScrolling,                  \* this.isScrolling
  measurementsCache,            \* this.measurementsCache
  itemSizeCache,                \* this.itemSizeCache: [id, m] (Map identity, contents)
  pendingMeasuredCacheIndexes,  \* this.pendingMeasuredCacheIndexes (as a set)
  scrollRect,                   \* this.scrollRect (size along the active axis)
  scrollOffset,                 \* this.scrollOffset
  scrollDirection,              \* this.scrollDirection
  scrollAdjustments,            \* this.scrollAdjustments
  range,                        \* this.range
  unsubs,                       \* this.unsubs (the subscriptions whose unsubscribe function is held)
  memoMeasurementOptions,       \* deps of the getMeasurementOptions memo
  memoMeasurements,             \* deps and result of the getMeasurements memo
  memoCalculateRange,           \* deps of the calculateRange memo
  memoMaybeNotify,              \* deps of the maybeNotify memo
  domScrollTop,                 \* element.scrollTop of the scroll container
  domHeight,                    \* height of the scroll container
  domScrollHeight,              \* element.scrollHeight of the scroll container
  targetWindow,                 \* this.targetWindow (None when detached)
  scrollToIndexTimeoutId,       \* this.scrollToIndexTimeoutId
  elementsCache,                \* this.elementsCache (the keys that hold an element)
  retryTimers,                  \* the window's pending timeouts set by scrollToIndex
  offsetObservers,              \* the closures made by observeElementOffset
  memoized,                     \* one closure made by memo(): deps, result, calls of fn and onChange
  scrollRequests,               \* calls of options.scrollToFn made by the last operation
  notifications,                \* calls of options.onChange made by the last operation
  subscriptionCalls,            \* calls of the observe options and of unsubscribe functions made by the last operation
  lastOp                        \* the name of the last operation

vars == <<options, scrollElement, isScrolling, measurementsCache, itemSizeCache,
          pendingMeasuredCacheIndexes, scrollRect, scrollOffset, scrollDirection,
          scrollAdjustments, range, unsubs, memoMeasurementOptions,
          memoMeasurements, memoCalculateRange, memoMaybeNotify, domScrollTop,
          domHeight, domScrollHeight, targetWindow, scrollToIndexTimeoutId,
          elementsCache, retryTimers, offsetObservers, memoized,
          scrollRequests, notifications, subscriptionCalls, lastOp>>

-----------------------------------------------------------------------------
(* Bounds and input domains *)

\* Largest item count the model explores.
MaxCount == 3

\* Largest item count of the lists whose visible range is calculated.
MaxRangeCount == 4

None == <<>>
Some(x) == <<x>>
IsSome(n) == Len(n) = 1
Val(n) == n[1]
OrElse(n, d) == IF IsSome(n) THEN n[1] ELSE d

At(s, i) == s[i + 1]
Has(s, i) == i >= 0 /\ i < Len(s)

Min(a, b) == IF a < b THEN a ELSE b
Max(a, b) == IF a > b THEN a ELSE b
SetMin(S) == CHOOSE x \in S : \A y \in S : x <= y

\* Sizes an element measurement can report (0: a hidden element).
SizeValues == {0, 80}

\* Positions the user scrolls the container to.
OffsetValues == {40, 200}

\* The estimateSize functions the consumer may supply.
EstimateFns == {"uniform", "falling"}
EstimateSize(f, i) ==
  IF f = "uniform" THEN 50
  ELSE IF 100 - 30 * i > 10 THEN 100 - 30 * i ELSE 10

\* The key extractors the consumer may supply: the default one, and the one
\* in force after an item was prepended (index j shows the old item j - 1).
KeyFns == {"index", "prepended"}
defaultKeyExtractor(index) == index
GetItemKey(f, index) == IF f = "index" THEN defaultKeyExtractor(index) ELSE index - 1

-----------------------------------------------------------------------------
(* The engine record: one field per variable *)

Cur ==
  [ options |-> options, scrollElement |-> scrollElement,
    isScrolling |-> isScrolling, measurementsCache |-> measurementsCache,
    itemSizeCache |-> itemSizeCache,
    pendingMeasuredCacheIndexes |-> pendingMeasuredCacheIndexes,
    scrollRect |-> scrollRect, scrollOffset |-> scrollOffset,
    scrollDirection |-> scrollDirection,
    scrollAdjustments |-> scrollAdjustments, range |-> range,
    unsubs |-> unsubs, memoMeasurementOptions |-> memoMeasurementOptions,
    memoMeasurements |-> memoMeasurements,
    memoCalculateRange |-> memoCalculateRange,
    memoMaybeNotify |-> memoMaybeNotify, domScrollTop |-> domScrollTop,
    domHeight |-> domHeight, domScrollHeight |-> domScrollHeight,
    targetWindow |-> targetWindow,
    scrollToIndexTimeoutId |-> scrollToIndexTimeoutId,
    elementsCache |-> elementsCache, retryTimers |-> retryTimers,
    offsetObservers |-> offsetObservers, memoized |-> memoized,
    scrollRequests |-> scrollRequests,
    notifications |-> notifications,
    subscriptionCalls |-> subscriptionCalls, lastOp |-> lastOp ]

\* The variables take the values of the engine record r.
Becomes(w) ==
  \E r \in {w} :
    /\ options' = r.options
    /\ scrollElement' = r.scrollElement
    /\ isScrolling' = r.isScrolling
    /\ measurementsCache' = r.measurementsCache
    /\ itemSizeCache' = r.itemSizeCache
    /\ pendingMeasuredCacheIndexes' = r.pendingMeasuredCacheIndexes
    /\ scrollRect' = r.scrollRect
    /\ scrollOffset' = r.scrollOffset
    /\ scrollDirection' = r.scrollDirection
    /\ scrollAdjustments' = r.scrollAdjustments
    /\ range' = r.range
    /\ unsubs' = r.unsubs
    /\ memoMeasurementOptions' = r.memoMeasurementOptions
    /\ memoMeasurements' = r.memoMeasurements
    /\ memoCalculateRange' = r.memoCalculateRange
    /\ memoMaybeNotify' = r.memoMaybeNotify
    /\ domScrollTop' = r.domScrollTop
    /\ domHeight' = r.domHeight
    /\ domScrollHeight' = r.domScrollHeight
    /\ targetWindow' = r.targetWindow
    /\ scrollToIndexTimeoutId' = r.scrollToIndexTimeoutId
    /\ elementsCache' = r.elementsCache
    /\ retryTimers' = r.retryTimers
    /\ offsetObservers' = r.offsetObservers
    /\ memoized' = r.memoized
    /\ scrollRequests' = r.scrollRequests
    /\ notifications' = r.notifications
    /\ subscriptionCalls' = r.subscriptionCalls
    /\ lastOp' = r.lastOp

\* An operation starts with empty logs of its outward calls.
Begin(v, op) ==
  [v EXCEPT !.scrollRequests = <<>>, !.notifications = <<>>,
            !.subscriptionCalls = <<>>, !.lastOp = op]

\* A value paired with the engine record after computing it.
Ret(st, val) == [st |-> st, val |-> val]

\* A statement sequence: x is computed once, then F runs on its value.
Then(x, F(_)) == CHOOSE y \in {F(a) : a \in {x}} : TRUE

-----------------------------------------------------------------------------
(* memo: the dependency comparison *)

\* A comparison of the elements alone, up to the shorter length.
DepsChangedElementsOnly(newDeps, deps) ==
  \E k \in 1..Min(Len(newDeps), Len(deps)) : deps[k] # newDeps[k]

\* depsChanged: the lengths differ or some element differs.
DepsChanged(newDeps, deps) ==
  \/ Len(newDeps) # Len(deps)
  \/ \E k \in 1..Len(newDeps) : deps[k] # newDeps[k]

\* The closure of memo(getDeps, fn, opts) before its first call: deps is
\* opts.initialDeps ?? [], result is undefined; runs and changes count the
\* calls of fn and of opts.onChange.
NewMemo == [deps |-> <<>>, result |-> None, runs |-> 0, changes |-> 0]

\* fn(...newDeps): a new result object, made by the given run of fn from its
\* arguments.
ResultOf(newDeps, run) == Some([args |-> newDeps, run |-> run])

\* memoizedFunction(), with newDeps the tuple getDeps() returned: the closure
\* after the call and the value returned.
memoizedFunction(m, newDeps) ==
  IF ~DepsChanged(newDeps, m.deps)
    THEN Ret(m, m.result)
    ELSE Ret([deps |-> newDeps, result |-> ResultOf(newDeps, m.runs + 1),
              runs |-> m.runs + 1, changes |-> m.changes + 1],
             ResultOf(newDeps, m.runs + 1))

\* memoizedFunction.updateDeps(newDeps)
updateDeps(m, newDeps) == [m EXCEPT !.deps = newDeps]

-----------------------------------------------------------------------------
(* Item-size map *)

EmptyMap == [k \in {} |-> 0]
MapHas(m, k) == k \in DOMAIN m
MapSet(m, k, x) == [j \in DOMAIN m \cup {k} |-> IF j = k THEN x ELSE m[j]]

\* Identity of a Map created by `new Map(...)`: one no live reference holds
\* (the engine's field and the getMeasurements memo's stored dependency).
NewMapId(v) ==
  LET held == {v.itemSizeCache.id} \cup
              (IF Len(v.memoMeasurements.deps) = 2
                 THEN {v.memoMeasurements.deps[2]} ELSE {})
  IN SetMin({n \in 0..2 : n \notin held})

-----------------------------------------------------------------------------
(* Measurement cache *)

RECURSIVE FurthestScan(_, _, _, _, _)
\* The loop of getFurthestMeasurement, from m down to 0: `found` is
\* furthestMeasurementsFound, `furthest` is furthestMeasurements.
FurthestScan(measurements, m, lanes, found, furthest) ==
  IF m < 0 THEN furthest
  ELSE
    LET measurement == At(measurements, m)
        l == measurement.lane
    IN IF l \in found
         THEN FurthestScan(measurements, m - 1, lanes, found, furthest)
         ELSE
           LET replace == \/ l \notin DOMAIN furthest
                          \/ measurement.end > furthest[l].end
               furthest2 == IF replace THEN MapSet(furthest, l, measurement)
                                       ELSE furthest
               found2 == IF ~replace /\ measurement.end < furthest[l].end
                           THEN found \cup {l} ELSE found
           IN IF Cardinality(found2) = lanes
                THEN furthest2
                ELSE FurthestScan(measurements, m - 1, lanes, found2, furthest2)

\* A comparator that breaks a tie of ends towards the later index.
SortsBeforeLaterIndex(a, b) ==
  IF a.end = b.end THEN a.index >= b.index ELSE a.end < b.end

\* The comparator of the final sort: by end, then by index.
SortsBefore(a, b) == IF a.end = b.end THEN a.index <= b.index ELSE a.end < b.end

\* The return of getFurthestMeasurement: the first of the sorted values of
\* furthestMeasurements when every lane has one, else undefined.
FirstSorted(furthest, lanes) ==
  LET values == {furthest[l] : l \in DOMAIN furthest}
  IN IF Cardinality(DOMAIN furthest) = lanes
       THEN Some(CHOOSE a \in values : \A b \in values : SortsBefore(a, b))
       ELSE None

getFurthestMeasurement(measurements, index, lanes) ==
  FirstSorted(FurthestScan(measurements, index - 1, lanes, {}, EmptyMap), lanes)

\* The predecessor the loop of getMeasurements positions item i after.
Predecessor(measurements, i, lanes) ==
  IF lanes = 1
    THEN (IF Has(measurements, i - 1) THEN Some(At(measurements, i - 1)) ELSE None)
    ELSE getFurthestMeasurement(measurements, i, lanes)

\* A size lookup that reads the measured size under the index.
SizeOfByIndex(sizes, key, i, estimate) ==
  IF MapHas(sizes, i) THEN sizes[i] ELSE EstimateSize(estimate, i)

\* The size of item i: the measured size of its key, else the estimate.
SizeOf(sizes, key, i, estimate) ==
  IF MapHas(sizes, key) THEN sizes[key] ELSE EstimateSize(estimate, i)

\* An end on the wrong side of the start.
ItemEndBeforeStart(start, size) == start - size

\* An end that leaves the start out.
ItemEndSizeOnly(start, size) == size

\* const end = start + size
ItemEnd(start, size) == start + size

\* The record of index i, given its key and its predecessor.
PlaceItem(i, key, furthestMeasurement, mo, opts, sizes) ==
  LET start == IF IsSome(furthestMeasurement)
                 THEN Val(furthestMeasurement).end + opts.gap
                 ELSE mo.paddingStart + mo.scrollMargin
      size == SizeOf(sizes, key, i, opts.estimateSize)
      lane == IF IsSome(furthestMeasurement)
                THEN Val(furthestMeasurement).lane
                ELSE i % opts.lanes
  IN [index |-> i, start |-> start, size |-> size,
      end |-> ItemEnd(start, size), key |-> key, lane |-> lane]

\* The record the loop of getMeasurements builds for index i.
MeasureItem(measurements, i, mo, opts, sizes) ==
  PlaceItem(i, GetItemKey(mo.getItemKey, i),
            Predecessor(measurements, i, opts.lanes), mo, opts, sizes)

RECURSIVE BuildMeasurements(_, _, _, _, _)
\* for (let i = min; i < count; i++) measurements[i] = ...
BuildMeasurements(measurements, i, mo, opts, sizes) ==
  IF i >= mo.count THEN measurements
  ELSE BuildMeasurements(
         Append(measurements, MeasureItem(measurements, i, mo, opts, sizes)),
         i + 1, mo, opts, sizes)

\* The result object of getMeasurementOptions for a dependency tuple.
MeasurementOptionsOf(deps) ==
  [count |-> deps[1], paddingStart |-> deps[2], scrollMargin |-> deps[3],
   getItemKey |-> deps[4], enabled |-> deps[5]]

\* getMeasurementOptions(): memo over (count, paddingStart, scrollMargin,
\* getItemKey, enabled); a rerun empties pendingMeasuredCacheIndexes.  The
\* result object is a fresh one exactly when the memo reruns, and its only
\* reader is the dependency getter of getMeasurements, so comparing its
\* contents is comparing its identity.
getMeasurementOptions(v) ==
  LET newDeps == <<v.options.count, v.options.paddingStart,
                   v.options.scrollMargin, v.options.getItemKey,
                   v.options.enabled>>
  IN IF DepsChanged(newDeps, v.memoMeasurementOptions.deps)
       THEN Ret([v EXCEPT !.memoMeasurementOptions = [deps |-> newDeps],
                          !.pendingMeasuredCacheIndexes = {}],
                MeasurementOptionsOf(newDeps))
       ELSE Ret(v, MeasurementOptionsOf(v.memoMeasurementOptions.deps))

\* A starting index taken from the highest pending index.
DirtyMinHighest(pending) ==
  IF pending # {} THEN CHOOSE x \in pending : \A y \in pending : x >= y ELSE 0

\* The index the recomputation starts from: the lowest pending index.
DirtyMin(pending) == IF pending # {} THEN SetMin(pending) ELSE 0

\* this.measurementsCache.slice(0, min)
SliceTo(cache, min) == SubSeq(cache, 1, Min(min, Len(cache)))

\* The end of the compute function: the pending indexes are emptied (before
\* the loop, which does not read them) and the measurements are stored.
StoreMeasurements(v, measurements) ==
  Ret([v EXCEPT !.pendingMeasuredCacheIndexes = {},
                !.measurementsCache = measurements], measurements)

\* The compute function of getMeasurements (initialMeasurementsCache is
\* left at its default, []).
ComputeMeasurements(v, mo) ==
  IF ~mo.enabled
    THEN Ret([v EXCEPT !.measurementsCache = <<>>,
                       !.itemSizeCache.m = EmptyMap], <<>>)
    ELSE Then(BuildMeasurements(
                SliceTo(v.measurementsCache,
                        DirtyMin(v.pendingMeasuredCacheIndexes)),
                DirtyMin(v.pendingMeasuredCacheIndexes), mo, v.options,
                v.itemSizeCache.m),
              LAMBDA measurements : StoreMeasurements(v, measurements))

\* memo: deps = newDeps; result = fn(...newDeps)
RememberMeasurements(c, newDeps) ==
  Ret([c.st EXCEPT !.memoMeasurements = [deps |-> newDeps, result |-> c.val]],
      c.val)

\* The memo of getMeasurements, given the result o of its first dependency.
MeasurementsMemo(o) ==
  LET newDeps == <<o.val, o.st.itemSizeCache.id>>
  IN IF DepsChanged(newDeps, o.st.memoMeasurements.deps)
       THEN Then(ComputeMeasurements(o.st, o.val),
                 LAMBDA c : RememberMeasurements(c, newDeps))
       ELSE Ret(o.st, o.st.memoMeasurements.result)

\* getMeasurements(): memo over (getMeasurementOptions(), itemSizeCache).
getMeasurements(v) == Then(getMeasurementOptions(v), MeasurementsMemo)

-----------------------------------------------------------------------------
(* Scroll state readers *)

\* getSize(): the viewport size along the active axis (initialRect is the
\* default, {width: 0, height: 0}).
getSize(v) ==
  IF ~v.options.enabled
    THEN Ret([v EXCEPT !.scrollRect = None], 0)
    ELSE LET rect == OrElse(v.scrollRect, 0)
         IN Ret([v EXCEPT !.scrollRect = Some(rect)], rect)

\* getScrollOffset()
getScrollOffset(v) ==
  IF ~v.options.enabled
    THEN Ret([v EXCEPT !.scrollOffset = None], 0)
    ELSE LET offset == OrElse(v.scrollOffset, v.options.initialOffset)
         IN Ret([v EXCEPT !.scrollOffset = Some(offset)], offset)

-----------------------------------------------------------------------------
(* Range calculator *)

\* The remainder operator of the source language (the sign of the dividend).
Rem(a, b) == IF a >= 0 THEN a % b ELSE 0 - ((0 - a) % b)

RECURSIVE findNearestBinarySearchCeiling(_, _, _, _)
\* A search that returns the index above the target when nothing matches.
findNearestBinarySearchCeiling(low, high, measurements, value) ==
  IF low <= high
    THEN LET middle == (low + high) \div 2
             currentValue == At(measurements, middle).start
         IN IF currentValue < value
              THEN findNearestBinarySearchCeiling(middle + 1, high,
                                                  measurements, value)
              ELSE IF currentValue > value
                THEN findNearestBinarySearchCeiling(low, middle - 1,
                                                    measurements, value)
                ELSE middle
    ELSE low

RECURSIVE findNearestBinarySearch(_, _, _, _)
\* getCurrentValue is the start of the measurement at the index.
findNearestBinarySearch(low, high, measurements, value) ==
  IF low <= high
    THEN LET middle == (low + high) \div 2
             currentValue == At(measurements, middle).start
         IN IF currentValue < value
              THEN findNearestBinarySearch(middle + 1, high, measurements, value)
              ELSE IF currentValue > value
                THEN findNearestBinarySearch(low, middle - 1, measurements, value)
                ELSE middle
    ELSE IF low > 0 THEN low - 1 ELSE 0

RECURSIVE ExpandEndSinglePastLimit(_, _, _)
\* A forward scan that also passes an item ending exactly at the limit.
ExpandEndSinglePastLimit(measurements, endIndex, limit) ==
  IF endIndex < Len(measurements) - 1 /\ At(measurements, endIndex).end <= limit
    THEN ExpandEndSinglePastLimit(measurements, endIndex + 1, limit)
    ELSE endIndex

RECURSIVE ExpandEndSingle(_, _, _)
\* lanes === 1: while (endIndex < lastIndex && end < scrollOffset + outerSize)
ExpandEndSingle(measurements, endIndex, limit) ==
  IF endIndex < Len(measurements) - 1 /\ At(measurements, endIndex).end < limit
    THEN ExpandEndSingle(measurements, endIndex + 1, limit)
    ELSE endIndex

RECURSIVE ExpandEnd(_, _, _, _)
\* lanes > 1: forward expansion, endPerLane holds each lane's latest end.
ExpandEnd(measurements, endIndex, endPerLane, limit) ==
  IF /\ endIndex < Len(measurements) - 1
     /\ \E l \in DOMAIN endPerLane : endPerLane[l] < limit
    THEN LET item == At(measurements, endIndex)
         IN ExpandEnd(measurements, endIndex + 1,
                      MapSet(endPerLane, item.lane, item.end), limit)
    ELSE endIndex

\* A backward expansion that stays at the index the search found.
ExpandStartNowhere(measurements, startIndex, startPerLane, scrollOff) ==
  startIndex

RECURSIVE ExpandStart(_, _, _, _)
\* lanes > 1: backward expansion, startPerLane holds each lane's latest start.
ExpandStart(measurements, startIndex, startPerLane, scrollOff) ==
  IF /\ startIndex >= 0
     /\ \E l \in DOMAIN startPerLane : startPerLane[l] >= scrollOff
    THEN LET item == At(measurements, startIndex)
         IN ExpandStart(measurements, startIndex - 1,
                        MapSet(startPerLane, item.lane, item.start), scrollOff)
    ELSE startIndex

\* An end index aligned to its lane-row but not held to the last index.
AlignEndUnclamped(endIndex, lanes, lastIndex) ==
  endIndex + (lanes - 1 - Rem(endIndex, lanes))

\* An end index left where the forward expansion stopped.
AlignEndUnsnapped(endIndex, lanes, lastIndex) == Min(lastIndex, endIndex)

\* Align endIndex to the end of its lane-row.
AlignEnd(endIndex, lanes, lastIndex) ==
  Min(lastIndex, endIndex + (lanes - 1 - Rem(endIndex, lanes)))

\* Align startIndex to the beginning of its lane-row.
AlignStart(startIndex, lanes) ==
  Max(0, startIndex - Rem(startIndex, lanes))

\* The function calculateRange({measurements, outerSize, scrollOffset, lanes}).
calculateRange(measurements, outerSize, scrollOff, lanes) ==
  LET lastIndex == Len(measurements) - 1
      first == findNearestBinarySearch(0, lastIndex, measurements, scrollOff)
  IN IF Len(measurements) <= lanes
       THEN [startIndex |-> 0, endIndex |-> lastIndex]
       ELSE IF lanes = 1
         THEN [startIndex |-> first,
               endIndex |-> ExpandEndSingle(measurements, first,
                                            scrollOff + outerSize)]
         ELSE IF lanes > 1
           THEN LET e == ExpandEnd(measurements, first,
                                   [l \in 0..(lanes - 1) |-> 0],
                                   scrollOff + outerSize)
                    s == ExpandStart(measurements, first,
                                     [l \in 0..(lanes - 1) |->
                                        scrollOff + outerSize],
                                     scrollOff)
                IN [startIndex |-> AlignStart(s, lanes),
                    endIndex |-> AlignEnd(e, lanes, lastIndex)]
           ELSE [startIndex |-> first, endIndex |-> first]

\* Virtualizer.calculateRange(): memo over (getMeasurements(), getSize(),
\* getScrollOffset(), lanes); the compute function stores this.range.  A
\* measurement array is never changed once returned, so comparing contents
\* reruns the function exactly when identity would change its result.
\* memo: deps = newDeps; the compute function stores this.range.
StoreRange(st, newDeps, r) ==
  Ret([st EXCEPT !.memoCalculateRange = [deps |-> newDeps], !.range = r], r)

\* A memo that computes a range for a viewport of any size.
RangeMemoAnySize(measurements, outerSize, so) ==
  LET lanes == so.st.options.lanes
      newDeps == <<measurements, outerSize, so.val, lanes>>
  IN IF DepsChanged(newDeps, so.st.memoCalculateRange.deps)
       THEN StoreRange(so.st, newDeps,
                       IF Len(measurements) > 0
                         THEN Some(calculateRange(measurements, outerSize,
                                                  so.val, lanes))
                         ELSE None)
       ELSE Ret(so.st, so.st.range)

\* The memo of calculateRange, given its dependencies: the measurements, the
\* size, and the result so of getScrollOffset().
RangeMemo(measurements, outerSize, so) ==
  LET lanes == so.st.options.lanes
      newDeps == <<measurements, outerSize, so.val, lanes>>
  IN IF DepsChanged(newDeps, so.st.memoCalculateRange.deps)
       THEN StoreRange(so.st, newDeps,
                       IF Len(measurements) > 0 /\ outerSize > 0
                         THEN Some(calculateRange(measurements, outerSize,
                                                  so.val, lanes))
                         ELSE None)
       ELSE Ret(so.st, so.st.range)

\* The dependency getter after getMeasurements() and getSize().
RangeDepsAfterSize(measurements, sz) ==
  Then(getScrollOffset(sz.st),
       LAMBDA so : RangeMemo(measurements, sz.val, so))

\* The dependency getter after getMeasurements().
RangeDepsAfterMeasurements(m) ==
  Then(getSize(m.st), LAMBDA sz : RangeDepsAfterSize(m.val, sz))

calculateRangeMemo(v) == Then(getMeasurements(v), RangeDepsAfterMeasurements)

-----------------------------------------------------------------------------
(* Notifications and scroll requests *)

\* notify(sync): options.onChange(this, sync)
notify(v, sync) == [v EXCEPT !.notifications = Append(@, sync)]

\* The dependency tuple of maybeNotify for the current isScrolling and range.
NotifyDeps(scrolling, r) ==
  <<scrolling,
    IF IsSome(r) THEN Some(Val(r).startIndex) ELSE None,
    IF IsSome(r) THEN Some(Val(r).endIndex) ELSE None>>

\* maybeNotify(): memo over (isScrolling, range.startIndex, range.endIndex),
\* gathered after calculateRange(); the compute function notifies.
\* NotifyMemo is the memo on the state calculateRange() leaves.
NotifyMemo(st) ==
  LET newDeps == NotifyDeps(st.isScrolling, st.range)
  IN IF DepsChanged(newDeps, st.memoMaybeNotify.deps)
       THEN notify([st EXCEPT !.memoMaybeNotify = [deps |-> newDeps]],
                   newDeps[1])
       ELSE st

maybeNotify(v) == Then(calculateRangeMemo(v).st, NotifyMemo)

\* A scroll executor that drops the adjustments.
elementScrollOffsetOnly(v, offset, adjustments) ==
  IF IsSome(v.scrollElement) THEN [v EXCEPT !.domScrollTop = offset] ELSE v

\* elementScroll: scrollTop (or scrollTo, when smooth) takes offset +
\* adjustments; nothing happens without a scroll element.
elementScroll(v, offset, adjustments) ==
  IF IsSome(v.scrollElement)
    THEN [v EXCEPT !.domScrollTop = offset + OrElse(adjustments, 0)]
    ELSE v

\* _scrollToOffset: options.scrollToFn(offset, {behavior, adjustments}, this)
scrollToOffsetInternal(v, offset, adjustments, behavior) ==
  elementScroll(
    [v EXCEPT !.scrollRequests =
       Append(@, [offset |-> offset, adjustments |-> adjustments,
                  behavior |-> behavior])],
    offset, adjustments)

-----------------------------------------------------------------------------
(* Virtual items *)

\* An extractor that does not clamp the overscanned start to 0.
defaultRangeExtractorUnclamped(r) ==
  LET start == r.startIndex - r.overscan
      end == Min(r.endIndex + r.overscan, r.count - 1)
  IN [k \in 1..(end - start + 1) |-> start + k - 1]

\* defaultRangeExtractor(range): the indexes from start to end.
defaultRangeExtractor(r) ==
  LET start == Max(r.startIndex - r.overscan, 0)
      end == Min(r.endIndex + r.overscan, r.count - 1)
  IN [k \in 1..(end - start + 1) |-> start + k - 1]

\* A getVirtualIndexes that leaves the dependencies of maybeNotify alone.
VirtualIndexesOfWithoutUpdate(c) ==
  Ret(c.st,
      IF IsSome(c.val)
        THEN defaultRangeExtractor(
               [startIndex |-> Val(c.val).startIndex,
                endIndex |-> Val(c.val).endIndex,
                overscan |-> c.st.options.overscan,
                count |-> c.st.options.count])
        ELSE <<>>)

\* getVirtualIndexes, given the result c of this.calculateRange(): the
\* dependencies of maybeNotify are updated, and the compute function runs
\* the range extractor (the default one).  Its result is a function of its
\* dependencies alone, so with or without a memo hit it is this value.
VirtualIndexesOf(c) ==
  Ret([c.st EXCEPT !.memoMaybeNotify =
                     [deps |-> NotifyDeps(c.st.isScrolling, c.val)]],
      IF IsSome(c.val)
        THEN defaultRangeExtractor(
               [startIndex |-> Val(c.val).startIndex,
                endIndex |-> Val(c.val).endIndex,
                overscan |-> c.st.options.overscan,
                count |-> c.st.options.count])
        ELSE <<>>)

\* getVirtualIndexes()
getVirtualIndexes(v) == Then(calculateRangeMemo(v), VirtualIndexesOf)

\* The compute function of getVirtualItems: measurements[i] of each index
\* (undefined, here None, for an index the measurements do not have).
VirtualItemsAt(indexes, m) ==
  Ret(m.st,
      [k \in 1..Len(indexes) |->
         IF Has(m.val, indexes[k]) THEN At(m.val, indexes[k]) ELSE None])

\* getVirtualItems, given the result i of getVirtualIndexes().
VirtualItemsOf(i) ==
  Then(getMeasurements(i.st), LAMBDA m : VirtualItemsAt(i.val, m))

\* getVirtualItems(): memo over (getVirtualIndexes(), getMeasurements());
\* its result is a function of the contents of the two.
getVirtualItems(v) == Then(getVirtualIndexes(v), VirtualItemsOf)

-----------------------------------------------------------------------------
(* Handlers *)

\* setOptions(opts)
setOptions(v, opts) == [v EXCEPT !.options = opts]

\* The closures of observeElementOffset that can still call back: those that
\* listen and those whose debounce timer is pending.
LiveObservers(observers) ==
  {o \in observers : o.listening \/ IsSome(o.timer)}

\* The unsubscribe function of observeElementOffset: the listeners are
\* removed; a pending debounce timer is left alone.
Unlisten(observers) ==
  LiveObservers({[o EXCEPT !.listening = FALSE] : o \in observers})

\* The subscription an observe option makes for the element of the engine.
Subscription(v, kind) == [kind |-> kind, element |-> v.scrollElement]

\* The engine holds the unsubscribe function of a subscription of the kind.
Subscribed(subs, kind) == \E i \in 1..Len(subs) : subs[i].kind = kind

\* The calls of the unsubscribe functions held: each one, in order.
Unsubscribed(subs) ==
  [i \in 1..Len(subs) |-> [call |-> "unsubscribe", of |-> subs[i]]]

\* The call of an observe option.
Subscribes(v, kind) == [call |-> "subscribe", of |-> Subscription(v, kind)]

\* A teardown that calls the unsubscribe functions and keeps them.
cleanupKeepingUnsubs(v) ==
  [v EXCEPT !.scrollElement = None, !.targetWindow = None,
            !.subscriptionCalls = @ \o Unsubscribed(v.unsubs),
            !.offsetObservers = Unlisten(@)]

\* A teardown that also forgets the measured sizes.
cleanupForgetting(v) ==
  [v EXCEPT !.unsubs = <<>>, !.scrollElement = None, !.targetWindow = None,
            !.subscriptionCalls = @ \o Unsubscribed(v.unsubs),
            !.offsetObservers = Unlisten(@),
            !.itemSizeCache.m = EmptyMap]

\* cleanup(): every unsubscribe function is called, the element and the
\* window are dropped.
cleanup(v) ==
  [v EXCEPT !.unsubs = <<>>, !.scrollElement = None, !.targetWindow = None,
            !.subscriptionCalls = @ \o Unsubscribed(v.unsubs),
            !.offsetObservers = Unlisten(@)]

\* The callback given to observeElementRect.
RectCallback(v, rect) == maybeNotify([v EXCEPT !.scrollRect = Some(rect)])

\* A callback that takes an equal offset for a forward move.
OffsetCallbackForwardOnEqual(v, offset, scrolling) ==
  LET direction == IF scrolling
                     THEN (IF getScrollOffset(v).val <= offset
                             THEN "forward" ELSE "backward")
                     ELSE "none"
  IN maybeNotify([v EXCEPT !.scrollAdjustments = 0,
                           !.scrollDirection = direction,
                           !.scrollOffset = Some(offset),
                           !.isScrolling = scrolling])

\* The callback given to observeElementOffset.
OffsetCallback(v, offset, scrolling) ==
  LET direction == IF scrolling
                     THEN (IF getScrollOffset(v).val < offset
                             THEN "forward" ELSE "backward")
                     ELSE "none"
  IN maybeNotify([v EXCEPT !.scrollAdjustments = 0,
                           !.scrollDirection = direction,
                           !.scrollOffset = Some(offset),
                           !.isScrolling = scrolling])

\* observeElementRect: reports the current size at once, then subscribes.
observeElementRect(v) ==
  LET c == RectCallback(v, v.domHeight)
  IN [c EXCEPT !.unsubs = Append(@, Subscription(v, "rect")),
               !.subscriptionCalls = Append(@, Subscribes(v, "rect"))]

\* 'onscrollend' in window: the browsers of this model support scrollend.
supportsScrollend == TRUE

\* The smallest number that names none of the records.
FreshId(records) ==
  CHOOSE n \in 1..(Cardinality(records) + 1) :
    /\ \A r \in records : r.id # n
    /\ \A m \in 1..(n - 1) : \E r \in records : r.id = m

\* The closure of one observeElementOffset call: its offset variable, its
\* fallback (a debounce of isScrollingResetDelay, or nothing), the time left
\* on the debounce timer, and whether its listeners are registered.
NewObserver(v) ==
  [id |-> FreshId(v.offsetObservers), offset |-> 0,
   debounced |-> ~(v.options.useScrollendEvent /\ supportsScrollend),
   delay |-> v.options.isScrollingResetDelay,
   timer |-> None, listening |-> TRUE]

\* A handler that reports without restarting the debounce timer.
ObservedWithoutRestart(o, offset) == [o EXCEPT !.offset = offset]

\* The closure after createHandler's function read the offset and called
\* fallback(): debounce clears its timer and sets a new one.
Observed(o, offset) ==
  [o EXCEPT !.offset = offset,
            !.timer = IF o.debounced THEN Some(o.delay) ELSE @]

\* The function made by createHandler(isScrolling), run in closure o.
OffsetHandler(v, o, scrolling) ==
  OffsetCallback(
    [v EXCEPT !.offsetObservers =
       (@ \ {o}) \cup {Observed(o, v.domScrollTop)}],
    v.domScrollTop, scrolling)

\* The function given to debounce, run when the timer of closure o fires.
DebouncedCallback(v, o) ==
  OffsetCallback(
    [v EXCEPT !.offsetObservers =
       LiveObservers((@ \ {o}) \cup {[o EXCEPT !.timer = None]})],
    o.offset, FALSE)

\* observeElementOffset with a new closure o: endHandler() reports
\* (scrollTop, false) at once, then the listeners are added.
ObserveWith(v, o) ==
  [OffsetHandler([v EXCEPT !.offsetObservers = @ \cup {o}], o, FALSE)
     EXCEPT !.unsubs = Append(@, Subscription(v, "offset")),
            !.subscriptionCalls = Append(@, Subscribes(v, "offset"))]

\* observeElementOffset: nothing without an element or a window.
observeElementOffset(v) ==
  IF IsSome(v.scrollElement) /\ IsSome(v.targetWindow)
    THEN ObserveWith(v, NewObserver(v))
    ELSE v

\* _willUpdate()
willUpdate(v) ==
  LET element == IF v.options.enabled THEN v.options.getScrollElement
                                      ELSE None
  IN IF v.scrollElement # element
       THEN LET c == cleanup(v)
            IN IF ~IsSome(element)
                 THEN maybeNotify(c)
                 ELSE LET a == [c EXCEPT !.scrollElement = element,
                                         !.targetWindow = Some("window")]
                          so == getScrollOffset(a)
                          b == scrollToOffsetInternal(so.st, so.val, None, None)
                      IN Then(observeElementRect(b), observeElementOffset)
       ELSE v

\* A decision that leaves the pending adjustments out.
ShouldAdjustOffsetOnly(v, item) == item.start < getScrollOffset(v).val

\* The default decision of resizeItem: the item starts before the offset.
ShouldAdjust(v, item) ==
  item.start < getScrollOffset(v).val + v.scrollAdjustments

\* A cached size read from the measurement record alone.
CachedSizeOfRecord(sizes, item) == item.size

\* this.itemSizeCache.get(item.key) ?? item.size
CachedSize(sizes, item) ==
  IF MapHas(sizes, item.key) THEN sizes[item.key] ELSE item.size

\* An adjustment that keeps the latest delta alone.
AccumulatedLatestOnly(adjustments, delta) == delta

\* this.scrollAdjustments += delta
Accumulated(adjustments, delta) == adjustments + delta

\* resizeItem(index, size)
resizeItem(v, index, size) ==
  IF ~Has(v.measurementsCache, index) THEN v
  ELSE
    LET item == At(v.measurementsCache, index)
        itemSize == CachedSize(v.itemSizeCache.m, item)
        delta == size - itemSize
    IN IF delta = 0 THEN v
       ELSE
         LET g == getScrollOffset(v)
             a == IF ShouldAdjust(v, item)
                    THEN scrollToOffsetInternal(
                           [g.st EXCEPT !.scrollAdjustments =
                                          Accumulated(@, delta)],
                           g.val,
                           Some(Accumulated(v.scrollAdjustments, delta)), None)
                    ELSE g.st
             b == [a EXCEPT !.pendingMeasuredCacheIndexes = @ \cup {item.index},
                            !.itemSizeCache =
                               [id |-> NewMapId(a),
                                m |-> MapSet(a.itemSizeCache.m, item.key, size)]]
         IN notify(b, FALSE)

\* _measureElement(node, entry) for a node whose index attribute is index
\* and whose measured size is size: the node is registered under the key of
\* the item and, when connected, the item is resized.
measureElementNode(v, index, size, connected) ==
  IF ~Has(v.measurementsCache, index) THEN v
  ELSE IF connected
    THEN resizeItem([v EXCEPT !.elementsCache =
                        @ \cup {At(v.measurementsCache, index).key}],
                    index, size)
    ELSE [v EXCEPT !.elementsCache =
            @ \cup {At(v.measurementsCache, index).key}]

\* measureElement(null): the elements that are no longer connected are
\* dropped.
measureElementNull(v, disconnected) ==
  [v EXCEPT !.elementsCache = @ \ disconnected]

\* An invalidation that also drops the pending adjustment.
measureDroppingAdjustments(v) ==
  notify([v EXCEPT !.itemSizeCache = [id |-> NewMapId(v), m |-> EmptyMap],
                   !.scrollAdjustments = 0],
         FALSE)

\* measure()
measure(v) ==
  notify([v EXCEPT !.itemSizeCache = [id |-> NewMapId(v), m |-> EmptyMap]],
         FALSE)

-----------------------------------------------------------------------------
(* Initial states *)

\* The options of a list that is enabled and has no scroll container yet.
DefaultOptions ==
  [count |-> MaxCount, paddingStart |-> 0, scrollMargin |-> 0,
   getItemKey |-> "index", enabled |-> TRUE, gap |-> 0, lanes |-> 1,
   estimateSize |-> "uniform", getScrollElement |-> None,
   initialOffset |-> 0, overscan |-> 1, scrollPaddingStart |-> 0,
   scrollPaddingEnd |-> 0, useScrollendEvent |-> TRUE,
   isScrollingResetDelay |-> 2, paddingEnd |-> 0]

\* Layouts: every count, one or two lanes, with and without gap and padding.
LayoutSpace ==
  {[DefaultOptions EXCEPT !.count = c, !.lanes = l, !.gap = g[1],
                          !.paddingStart = g[2]] :
     c \in 0..MaxCount, l \in {1, 2}, g \in {<<0, 0>>, <<5, 10>>}}

\* The options the consumer passes while the items of one list change:
\* items are removed and prepended, the gap changes.
ItemOptionSpace ==
  {[DefaultOptions EXCEPT !.count = c, !.getItemKey = k, !.gap = g,
                          !.estimateSize = "falling"] :
     c \in {MaxCount - 1, MaxCount}, k \in KeyFns, g \in {0, 5}}

\* The options the consumer passes over the life of the list's container:
\* the list is disabled and enabled, the container appears and disappears.
OptionSpace ==
  {[DefaultOptions EXCEPT !.count = MaxCount - 1, !.enabled = e,
                          !.getScrollElement = el] :
     e \in BOOLEAN, el \in {None, Some("el")}}

\* Positions of the container in the range calculation: overscrolled above
\* the content, at rest, on an item boundary, inside an item, beyond the
\* content.
RangeOffsets == {0 - 10, 0, 50, 60, 200}

\* Sizes of the container in the range calculation (0: a hidden container).
ViewportSizes == {0, 30, 100}

\* The lists of the range calculation: empty to full, one and two lanes,
\* both estimates, attached, without a container, and disabled.
RangeOptionSpace ==
  {[DefaultOptions EXCEPT !.count = c, !.lanes = l, !.estimateSize = f,
                          !.enabled = a[1], !.getScrollElement = a[2]] :
     c \in 0..MaxRangeCount, l \in {1, 2}, f \in EstimateFns,
     a \in {<<TRUE, Some("el")>>, <<TRUE, None>>, <<FALSE, Some("el")>>}}

\* The state after `new Virtualizer(opts)`.
Constructed(opts) ==
  /\ options = opts
  /\ scrollElement = None
  /\ isScrolling = FALSE
  /\ measurementsCache = <<>>
  /\ itemSizeCache = [id |-> 0, m |-> EmptyMap]
  /\ pendingMeasuredCacheIndexes = {}
  /\ scrollRect = None
  /\ scrollOffset = None
  /\ scrollDirection = "none"
  /\ scrollAdjustments = 0
  /\ range = None
  /\ unsubs = <<>>
  /\ memoMeasurementOptions = [deps |-> <<>>]
  /\ memoMeasurements = [deps |-> <<>>, result |-> <<>>]
  /\ memoCalculateRange = [deps |-> <<>>]
  /\ memoMaybeNotify = [deps |-> <<FALSE, None, None>>]
  /\ domScrollTop = 0
  /\ domHeight = 100
  /\ domScrollHeight = 300
  /\ targetWindow = None
  /\ scrollToIndexTimeoutId = None
  /\ elementsCache = {}
  /\ retryTimers = {}
  /\ offsetObservers = {}
  /\ memoized = NewMemo
  /\ scrollRequests = <<>>
  /\ notifications = <<>>
  /\ subscriptionCalls = <<>>
  /\ lastOp = "new"

-----------------------------------------------------------------------------
(* Scrolling to an offset or an item *)

\* x / 2 for the sizes of this model, which are all even.
Half(x) == x \div 2

\* The scrollHeight read from the scroll element, 0 without one.
ScrollSizeOf(v) == IF IsSome(v.scrollElement) THEN v.domScrollHeight ELSE 0

\* An alignment whose result is not kept at or above 0.
AlignedOffsetUnfloored(so, size, toOffset, align, itemSize) ==
  LET a == IF align = "auto"
             THEN (IF toOffset >= so.val + size THEN "end" ELSE "start")
             ELSE align
      t == IF a = "center" THEN toOffset + Half(itemSize - size)
           ELSE IF a = "end" THEN toOffset - size
           ELSE toOffset
  IN Ret(so.st, Min(ScrollSizeOf(so.st) - size, t))

\* getOffsetForAlignment after getSize() returned size and getScrollOffset()
\* returned so.
AlignedOffset(so, size, toOffset, align, itemSize) ==
  LET a == IF align = "auto"
             THEN (IF toOffset >= so.val + size THEN "end" ELSE "start")
             ELSE align
      t == IF a = "center" THEN toOffset + Half(itemSize - size)
           ELSE IF a = "end" THEN toOffset - size
           ELSE toOffset
  IN Ret(so.st, Max(Min(ScrollSizeOf(so.st) - size, t), 0))

\* getOffsetForAlignment after getSize().
AlignedAfterSize(sz, toOffset, align, itemSize) ==
  Then(getScrollOffset(sz.st),
       LAMBDA so : AlignedOffset(so, sz.val, toOffset, align, itemSize))

\* getOffsetForAlignment(toOffset, align, itemSize)
getOffsetForAlignment(v, toOffset, align, itemSize) ==
  Then(getSize(v), LAMBDA sz : AlignedAfterSize(sz, toOffset, align, itemSize))

\* The pair [offset, align] that getOffsetForIndex returns.
OffsetAndAlign(o, align) == Ret(o.st, Some(<<o.val, align>>))

\* A resolution of 'auto' that tests the start edge before the end edge.
OffsetForItemStartFirst(so, size, item, align) ==
  LET opts == so.st.options
      a == IF align # "auto" THEN align
           ELSE IF item.start <= so.val + opts.scrollPaddingStart
             THEN "start"
           ELSE IF item.end >= so.val + size - opts.scrollPaddingEnd
             THEN "end"
           ELSE "auto"
      toOffset == IF a = "end" THEN item.end + opts.scrollPaddingEnd
                               ELSE item.start - opts.scrollPaddingStart
  IN IF a = "auto"
       THEN Ret(so.st, Some(<<so.val, "auto">>))
       ELSE Then(getOffsetForAlignment(so.st, toOffset, a, item.size),
                 LAMBDA o : OffsetAndAlign(o, a))

\* getOffsetForIndex for an item, after getSize() returned size and
\* getScrollOffset() returned so.
OffsetForItem(so, size, item, align) ==
  LET opts == so.st.options
      a == IF align # "auto" THEN align
           ELSE IF item.end >= so.val + size - opts.scrollPaddingEnd
             THEN "end"
           ELSE IF item.start <= so.val + opts.scrollPaddingStart
             THEN "start"
           ELSE "auto"
      toOffset == IF a = "end" THEN item.end + opts.scrollPaddingEnd
                               ELSE item.start - opts.scrollPaddingStart
  IN IF a = "auto"
       THEN Ret(so.st, Some(<<so.val, "auto">>))
       ELSE Then(getOffsetForAlignment(so.st, toOffset, a, item.size),
                 LAMBDA o : OffsetAndAlign(o, a))

\* getOffsetForIndex for an item, after getSize().
OffsetForItemAfterSize(sz, item, align) ==
  Then(getScrollOffset(sz.st),
       LAMBDA so : OffsetForItem(so, sz.val, item, align))

\* The index clamped into the list.
ClampIndex(v, index) == Max(0, Min(index, v.options.count - 1))

\* getOffsetForIndex(index, align): undefined when the cache holds no such
\* item.
getOffsetForIndex(v, index, align) ==
  IF Has(v.measurementsCache, ClampIndex(v, index))
    THEN Then(getSize(v),
              LAMBDA sz : OffsetForItemAfterSize(
                            sz, At(v.measurementsCache, ClampIndex(v, index)),
                            align))
    ELSE Ret(v, None)

\* isDynamicMode(): some item holds an element.
isDynamicMode(v) == v.elementsCache # {}

\* A cancellation that forgets the timeout id and leaves the timeout pending.
cancelScrollToIndexForgetsId(v) ==
  [v EXCEPT !.scrollToIndexTimeoutId = None]

\* cancelScrollToIndex(): clears the timeout when there is one and a window.
cancelScrollToIndex(v) ==
  IF IsSome(v.scrollToIndexTimeoutId) /\ IsSome(v.targetWindow)
    THEN [v EXCEPT !.retryTimers =
                     {t \in @ : t.id # Val(v.scrollToIndexTimeoutId)},
                   !.scrollToIndexTimeoutId = None]
    ELSE v

\* scrollToOffset(toOffset, {align, behavior})
scrollToOffset(v, toOffset, align, behavior) ==
  LET o == getOffsetForAlignment(cancelScrollToIndex(v), toOffset, align, 0)
  IN scrollToOffsetInternal(o.st, o.val, None, behavior)

RECURSIVE EndByLaneScan(_, _, _, _)
\* The loop of getTotalSize over endByLane, from endIndex down to 0, while
\* some lane has no end yet: the first end met for a lane is kept.
EndByLaneScan(measurements, endIndex, lanes, endByLane) ==
  IF endIndex >= 0 /\ \E l \in 0..(lanes - 1) : ~MapHas(endByLane, l)
    THEN EndByLaneScan(
           measurements, endIndex - 1, lanes,
           IF MapHas(endByLane, At(measurements, endIndex).lane)
             THEN endByLane
             ELSE MapSet(endByLane, At(measurements, endIndex).lane,
                         At(measurements, endIndex).end))
    ELSE endByLane

\* Math.max(...values)
SetMax(S) == CHOOSE x \in S : \A y \in S : x >= y

\* The end getTotalSize works from: paddingStart without measurements, the
\* end of the last item with one lane, else the largest of the lane ends.
TotalEnd(measurements, opts) ==
  IF Len(measurements) = 0
    THEN opts.paddingStart
    ELSE IF opts.lanes = 1
      THEN At(measurements, Len(measurements) - 1).end
      ELSE LET endByLane == EndByLaneScan(measurements, Len(measurements) - 1,
                                          opts.lanes, EmptyMap)
           IN SetMax({endByLane[l] : l \in DOMAIN endByLane})

\* getTotalSize, given the result m of getMeasurements().
TotalSizeOf(m) ==
  Ret(m.st,
      Max(TotalEnd(m.val, m.st.options) - m.st.options.scrollMargin
            + m.st.options.paddingEnd, 0))

\* getTotalSize()
getTotalSize(v) == Then(getMeasurements(v), TotalSizeOf)

\* scrollBy(delta, {behavior})
scrollBy(v, delta, behavior) ==
  LET so == getScrollOffset(cancelScrollToIndex(v))
  IN scrollToOffsetInternal(so.st, so.val + delta, None, behavior)

\* A scrollToIndex that sets its timeout in every mode but smooth.
ArmRetryInEveryMode(s, index, align, behavior) ==
  IF behavior # Some("smooth") /\ IsSome(s.targetWindow)
    THEN [s EXCEPT !.scrollToIndexTimeoutId = Some(FreshId(s.retryTimers)),
                   !.retryTimers =
                      @ \cup {[id |-> FreshId(s.retryTimers), index |-> index,
                               align |-> align, behavior |-> behavior]}]
    ELSE s

\* The end of scrollToIndex: the timeout is set unless the behavior is
\* smooth, no item holds an element, or there is no window.
ArmRetry(s, index, align, behavior) ==
  IF behavior # Some("smooth") /\ isDynamicMode(s) /\ IsSome(s.targetWindow)
    THEN [s EXCEPT !.scrollToIndexTimeoutId = Some(FreshId(s.retryTimers)),
                   !.retryTimers =
                      @ \cup {[id |-> FreshId(s.retryTimers), index |-> index,
                               align |-> align, behavior |-> behavior]}]
    ELSE s

\* A scrollToIndex that sets its timeout without a scroll request.
ScrollAndArmWithoutRequest(oa, index, behavior) ==
  IF oa.val = None
    THEN oa.st
    ELSE ArmRetry(oa.st, index, Val(oa.val)[2], behavior)

\* scrollToIndex after getOffsetForIndex returned oa: nothing without an
\* offset, else the scroll request and the timeout.
ScrollAndArm(oa, index, behavior) ==
  IF oa.val = None
    THEN oa.st
    ELSE Then(scrollToOffsetInternal(oa.st, Val(oa.val)[1], None, behavior),
              LAMBDA s : ArmRetry(s, index, Val(oa.val)[2], behavior))

\* scrollToIndex(index, {align, behavior})
scrollToIndex(v, index, initialAlign, behavior) ==
  Then(getOffsetForIndex(cancelScrollToIndex(v), ClampIndex(v, index),
                         initialAlign),
       LAMBDA oa : ScrollAndArm(oa, ClampIndex(v, index), behavior))

Abs(x) == IF x < 0 THEN 0 - x ELSE x

\* A comparison that takes a difference of exactly 1 as equal.
approxEqualWithinOne(a, b) == Abs(a - b) <= 1

\* approxEqual(a, b)
approxEqual(a, b) == Abs(a - b) < 1

\* The timeout callback for a mounted element, after getScrollOffset()
\* returned so: scrollToIndex again unless the offsets are about equal.
RetryUnlessEqual(so, latestOffset, t) ==
  IF ~approxEqual(latestOffset, so.val)
    THEN scrollToIndex(so.st, t.index, t.align, t.behavior)
    ELSE so.st

\* The timeout callback for a mounted element, after getOffsetForIndex
\* returned oa; notUndefined throws when there is no offset, which ends the
\* callback.
RetryMounted(oa, t) ==
  IF oa.val = None
    THEN oa.st
    ELSE Then(getScrollOffset(oa.st),
              LAMBDA so : RetryUnlessEqual(so, Val(oa.val)[1], t))

\* The timeout callback of scrollToIndex, with the timeout id already reset.
RetryBody(st, t) ==
  IF GetItemKey(st.options.getItemKey, t.index) \in st.elementsCache
    THEN Then(getOffsetForIndex(st, t.index, t.align),
              LAMBDA oa : RetryMounted(oa, t))
    ELSE scrollToIndex(st, t.index, t.align, t.behavior)

\* The function scrollToIndex gives to setTimeout, run for the timer t.
retryCallback(v, t) ==
  RetryBody([v EXCEPT !.scrollToIndexTimeoutId = None,
                      !.retryTimers = @ \ {t}], t)

-----------------------------------------------------------------------------
(* Actions: one per operation of the engine or event of its host *)

\* The consumer calls setOptions with changed options.
SetOptions(space) ==
  \E opts \in space :
    /\ opts # options
    /\ Becomes(setOptions(Begin(Cur, "setOptions"), opts))

\* The adapter's effect runs _willUpdate().
WillUpdate == Becomes(willUpdate(Begin(Cur, "willUpdate")))

\* The cleanup returned by _didMount() runs (unmount).
Unmount ==
  /\ IsSome(scrollElement)
  /\ Becomes(cleanup(Begin(Cur, "unmount")))

\* A reader of the measurements (getVirtualItems, getTotalSize, ...) runs
\* getMeasurements().
GetMeasurements == Becomes(getMeasurements(Begin(Cur, "getMeasurements")).st)

\* An element measurement reports a size for an index.
ResizeItem(sizes) ==
  \E index \in 0..(MaxCount - 1), size \in sizes :
    Becomes(resizeItem(Begin(Cur, "resizeItem"), index, size))

\* The consumer calls measure().
Measure == Becomes(measure(Begin(Cur, "measure")))

\* The container is scrolled to a position (by the user, or by an earlier
\* scroll request) and the listening closure handles the event: 'scroll'
\* (scrolling) or, where it is registered, 'scrollend'.
OffsetEvent(offsets, flags) ==
  \E offset \in offsets \cup {domScrollTop}, scrolling \in flags :
    \E o \in offsetObservers :
      /\ Subscribed(unsubs, "offset")
      /\ o.listening
      /\ scrolling \/ ~o.debounced
      /\ Becomes(OffsetHandler(
                   [Begin(Cur, "offsetEvent") EXCEPT !.domScrollTop = offset],
                   o, scrolling))

\* The container is resized and the rect observer reports its size.
RectEvent(sizes) ==
  \E size \in sizes :
    /\ Subscribed(unsubs, "rect")
    /\ Becomes(RectCallback(
                 [Begin(Cur, "rectEvent") EXCEPT !.domHeight = size], size))

\* The adapter's render reads the items to show: getVirtualItems().
GetVirtualItems == Becomes(getVirtualItems(Begin(Cur, "getVirtualItems")).st)

\* The content of the container grows or shrinks.
ContentResized(heights) ==
  \E height \in heights :
    /\ height # domScrollHeight
    /\ Becomes([Begin(Cur, "contentResized") EXCEPT
                 !.domScrollHeight = height])

\* The consumer calls scrollToOffset.
ScrollToOffset(offsets, aligns, behaviors) ==
  \E toOffset \in offsets, align \in aligns, behavior \in behaviors :
    Becomes(scrollToOffset(Begin(Cur, "scrollToOffset"), toOffset, align,
                           behavior))

\* The consumer calls scrollBy.
ScrollBy(deltas, behaviors) ==
  \E delta \in deltas, behavior \in behaviors :
    Becomes(scrollBy(Begin(Cur, "scrollBy"), delta, behavior))

\* The consumer calls scrollToIndex.
ScrollToIndex(indexes, aligns, behaviors) ==
  \E index \in indexes, align \in aligns, behavior \in behaviors :
    Becomes(scrollToIndex(Begin(Cur, "scrollToIndex"), index, align,
                          behavior))

\* A timeout set by scrollToIndex fires.
RetryFires ==
  \E t \in retryTimers :
    Becomes(retryCallback(Begin(Cur, "retry"), t))

\* The adapter mounts the element of an item and passes it to
\* measureElement, or the element's resize observer reports its size.
MeasureElement(indexes, sizes) ==
  \E index \in indexes, size \in sizes :
    Becomes(measureElementNode(Begin(Cur, "measureElement"), index, size,
                               TRUE))

\* Elements were removed from the document and the adapter calls
\* measureElement(null).
ElementsRemoved ==
  \E disconnected \in SUBSET elementsCache :
    /\ disconnected # {}
    /\ Becomes(measureElementNull(Begin(Cur, "measureElementNull"),
                                  disconnected))

\* The memoized function is called and getDeps() returns newDeps; the calls
\* of fn are counted up to maxRuns.
MemoCall(tuples, maxRuns) ==
  \E newDeps \in tuples :
    /\ memoized.runs < maxRuns \/ ~DepsChanged(newDeps, memoized.deps)
    /\ Becomes([Begin(Cur, "memo") EXCEPT
                 !.memoized = memoizedFunction(memoized, newDeps).st])

\* updateDeps is called with a tuple.
UpdateDeps(tuples) ==
  \E newDeps \in tuples :
    Becomes([Begin(Cur, "updateDeps") EXCEPT
              !.memoized = updateDeps(memoized, newDeps)])

\* One unit of time passes: every pending debounce timer has one unit less
\* to run.  A timer that is due fires before more time passes.
TimePasses ==
  /\ \E o \in offsetObservers : IsSome(o.timer)
  /\ \A o \in offsetObservers : o.timer # Some(0)
  /\ Becomes([Begin(Cur, "timePasses") EXCEPT
               !.offsetObservers =
                  {[o EXCEPT !.timer = IF IsSome(@) THEN Some(Val(@) - 1)
                                                    ELSE @] : o \in @}])

\* The debounce timer of a closure is due and runs its function.
DebounceFires ==
  \E o \in offsetObservers :
    /\ o.timer = Some(0)
    /\ Becomes(DebouncedCallback(Begin(Cur, "debounce"), o))

\* The consumer calls getOffsetForIndex.
GetOffsetForIndex(indexes, aligns) ==
  \E index \in indexes, align \in aligns :
    Becomes(getOffsetForIndex(Begin(Cur, "getOffsetForIndex"),
                              index, align).st)

\* The consumer reads the size of the scrollable content: getTotalSize().
GetTotalSize == Becomes(getTotalSize(Begin(Cur, "getTotalSize")).st)

-----------------------------------------------------------------------------
(* Specifications *)

\* The life of the container of one list: the list is disabled and enabled,
\* the container comes and goes, items are measured and invalidated.
Init == Constructed([DefaultOptions EXCEPT !.count = MaxCount - 1])

Next ==
  \/ SetOptions(OptionSpace)
  \/ WillUpdate
  \/ Unmount
  \/ OffsetEvent({}, {FALSE})
  \/ GetMeasurements
  \/ ResizeItem({80})
  \/ Measure

Spec == Init /\ [][Next]_vars

\* The items of one list change while they are measured and invalidated.
InitItems == \E opts \in ItemOptionSpace : Constructed(opts)

NextItems ==
  \/ SetOptions(ItemOptionSpace)
  \/ GetMeasurements
  \/ ResizeItem({80})
  \/ Measure

SpecItems == InitItems /\ [][NextItems]_vars

\* Fixed options: the measurements of every layout under resizes.
InitFixed == \E opts \in LayoutSpace : Constructed(opts)

NextFixed ==
  \/ GetMeasurements
  \/ ResizeItem(SizeValues)

SpecFixed == InitFixed /\ [][NextFixed]_vars

\* Fixed options, attached container: items grow and shrink to their
\* measured size while the user scrolls.
InitScroll ==
  \E l \in {1, 2}, f \in EstimateFns :
    Constructed([DefaultOptions EXCEPT !.lanes = l, !.estimateSize = f,
                                       !.getScrollElement = Some("el")])

NextScroll ==
  \/ WillUpdate
  \/ OffsetEvent(OffsetValues, {FALSE})
  \/ GetMeasurements
  \/ ResizeItem({80})

SpecScroll == InitScroll /\ [][NextScroll]_vars

\* Fixed options: the visible range while the container scrolls and is
\* resized, and hidden items are measured at size 0.
InitRange == \E opts \in RangeOptionSpace : Constructed(opts)

NextRange ==
  \/ WillUpdate
  \/ RectEvent(ViewportSizes)
  \/ OffsetEvent(RangeOffsets, {FALSE})
  \/ ResizeItem({0})
  \/ GetVirtualItems

SpecRange == InitRange /\ [][NextRange]_vars

\* The container of a list comes and goes, the list is emptied, disabled and
\* enabled, while the adapter renders.
DetachOptionSpace ==
  {[DefaultOptions EXCEPT !.count = c, !.enabled = e, !.getScrollElement = g] :
     c \in {0, MaxCount - 1}, e \in BOOLEAN, g \in {None, Some("el")}}

InitDetach == \E opts \in DetachOptionSpace : Constructed(opts)

NextDetach ==
  \/ SetOptions(DetachOptionSpace)
  \/ WillUpdate
  \/ Unmount
  \/ RectEvent({0, 100})
  \/ OffsetEvent({50}, {FALSE})
  \/ GetVirtualItems

SpecDetach == InitDetach /\ [][NextDetach]_vars

\* The consumer moves the list between two containers, removes the
\* container, disables and enables the list, while the containers are
\* scrolled and resized and the adapter renders.
SubscribeOptionSpace ==
  {[DefaultOptions EXCEPT !.count = MaxCount - 1, !.enabled = e,
                          !.getScrollElement = g] :
     e \in BOOLEAN, g \in {None, Some("el"), Some("other")}}

InitSubscribe == \E opts \in SubscribeOptionSpace : Constructed(opts)

NextSubscribe ==
  \/ SetOptions(SubscribeOptionSpace)
  \/ WillUpdate
  \/ Unmount
  \/ RectEvent({0, 100})
  \/ OffsetEvent({50}, BOOLEAN)
  \/ GetVirtualItems

SpecSubscribe == InitSubscribe /\ [][NextSubscribe]_vars

\* The consumer asks where to scroll while the container comes and goes, is
\* scrolled, and its viewport and content change size.
Aligns == {"start", "center", "end", "auto"}

AlignTargets == {0, 50, 250}

AlignOffsets == {0, 70, 100}

ContentSizes == {50, 300}

AlignOptionSpace ==
  {[DefaultOptions EXCEPT !.count = c, !.estimateSize = "falling",
                          !.scrollPaddingStart = ps, !.scrollPaddingEnd = pe,
                          !.getScrollElement = Some("el")] :
     c \in {0, MaxCount}, ps \in {0, 10}, pe \in {0, 10}}

InitAlign == \E opts \in AlignOptionSpace : Constructed(opts)

NextAlign ==
  \/ WillUpdate
  \/ Unmount
  \/ RectEvent({30, 100})
  \/ OffsetEvent(AlignOffsets, {FALSE})
  \/ ContentResized(ContentSizes)
  \/ ScrollToOffset(AlignTargets, Aligns, {None})
  \/ GetOffsetForIndex(0 - 1..MaxCount, {"auto"})

SpecAlign == InitAlign /\ [][NextAlign]_vars

\* The consumer scrolls to items of a list whose container is attached,
\* scrolled and resized; no item holds an element.
Behaviors == {None, Some("smooth")}

IndexAligns == {"auto", "start", "end"}

IndexOptionSpace ==
  {[DefaultOptions EXCEPT !.count = MaxCount, !.estimateSize = "falling",
                          !.scrollPaddingStart = ps,
                          !.getScrollElement = Some("el")] :
     ps \in {0, 10}}

InitIndex == \E opts \in IndexOptionSpace : Constructed(opts)

NextIndex ==
  \/ WillUpdate
  \/ RectEvent({30})
  \/ OffsetEvent({200}, {FALSE})
  \/ ScrollToIndex(0 - 1..MaxCount, IndexAligns, Behaviors)
  \/ GetOffsetForIndex(0..MaxCount - 1, IndexAligns)

SpecIndex == InitIndex /\ [][NextIndex]_vars

\* The consumer scrolls to items, to offsets and by deltas while elements
\* are mounted, measured and removed, the container comes and goes, and the
\* timeouts of scrollToIndex fire.
InitRetry ==
  Constructed([DefaultOptions EXCEPT !.count = MaxCount,
                                     !.estimateSize = "falling",
                                     !.getScrollElement = Some("el")])

NextRetry ==
  \/ WillUpdate
  \/ Unmount
  \/ OffsetEvent({200}, {FALSE})
  \/ MeasureElement({MaxCount - 1}, {41})
  \/ ElementsRemoved
  \/ GetVirtualItems
  \/ ScrollToIndex({0, MaxCount - 1}, {"auto", "end"}, Behaviors)
  \/ ScrollToOffset({50}, {"start"}, {None})
  \/ ScrollBy({0}, {None})
  \/ RetryFires

SpecRetry == InitRetry /\ [][NextRetry]_vars

\* A list in an attached container is scrolled, measured, disabled and
\* enabled while the adapter renders and the consumer asks for offsets.
\* Items are measured while the container is at or above FrameOffset, the
\* offset the user scrolls to.
FrameOffset == 120

FrameOptionSpace ==
  {[DefaultOptions EXCEPT !.count = MaxCount - 1, !.enabled = e,
                          !.getScrollElement = Some("el")] :
     e \in BOOLEAN}

NextFrame ==
  \/ SetOptions(FrameOptionSpace)
  \/ WillUpdate
  \/ OffsetEvent({FrameOffset}, BOOLEAN)
  \/ domScrollTop <= FrameOffset /\ ResizeItem({80})
  \/ GetVirtualItems
  \/ GetOffsetForIndex({0}, {"end"})

SpecFrame ==
  /\ \E opts \in FrameOptionSpace : Constructed(opts)
  /\ [][NextFrame]_vars

\* The user scrolls an attached container whose observer uses the scrollend
\* event or the timer fallback, while time passes and the adapter renders.
\* Time passes, a due timer fires, and the browser sends scrollend once the
\* container rests.
ObservedOffsets == {0, 50, 120}

NextObserve ==
  \/ WillUpdate
  \/ OffsetEvent(ObservedOffsets, {TRUE})
  \/ OffsetEvent({}, {FALSE})
  \/ TimePasses
  \/ DebounceFires
  \/ GetVirtualItems

SpecObserve ==
  /\ \E delay \in {2, 3}, scrollend \in BOOLEAN :
       Constructed([DefaultOptions EXCEPT !.useScrollendEvent = scrollend,
                                          !.isScrollingResetDelay = delay,
                                          !.getScrollElement = Some("el")])
  /\ [][NextObserve]_vars
  /\ WF_vars(TimePasses)
  /\ WF_vars(DebounceFires)
  /\ WF_vars(OffsetEvent({}, {FALSE}))

\* The observed container is also unmounted and attached again while
\* debounce timers run; the container is unmounted while fewer than
\* MaxObservers closures of observeElementOffset are alive.
MaxObservers == 2

NextTeardown ==
  \/ WillUpdate
  \/ Cardinality(offsetObservers) < MaxObservers /\ Unmount
  \/ OffsetEvent(ObservedOffsets, {TRUE})
  \/ OffsetEvent({}, {FALSE})
  \/ TimePasses
  \/ DebounceFires
  \/ GetVirtualItems

SpecTeardown ==
  /\ \E delay \in {2, 3}, scrollend \in BOOLEAN :
       Constructed([DefaultOptions EXCEPT !.useScrollendEvent = scrollend,
                                          !.isScrollingResetDelay = delay,
                                          !.getScrollElement = Some("el")])
  /\ [][NextTeardown]_vars

\* The total size of a list whose lanes, margin and paddings change while
\* its items are measured.
TotalOptionSpace ==
  {[DefaultOptions EXCEPT !.count = c, !.lanes = l, !.scrollMargin = p[1],
                          !.paddingStart = p[2], !.paddingEnd = p[3]] :
     c \in {0, MaxCount}, l \in {1, 2}, p \in {<<0, 0, 0>>, <<30, 10, 5>>}}

InitTotal == \E opts \in TotalOptionSpace : Constructed(opts)

NextTotal ==
  \/ SetOptions(TotalOptionSpace)
  \/ ResizeItem({0})
  \/ GetTotalSize

SpecTotal == InitTotal /\ [][NextTotal]_vars

\* A memoized function called with dependency tuples of up to MaxDeps
\* values, fn running up to MaxRuns times.
MaxDeps == 2

MaxRuns == 4

DepTuples == UNION {[1..n -> {1, 2}] : n \in 0..MaxDeps}

NextMemo ==
  \/ MemoCall(DepTuples, MaxRuns)
  \/ UpdateDeps(DepTuples)

SpecMemo == Constructed(DefaultOptions) /\ [][NextMemo]_vars

\* One scrollToIndex to the last item of a list in dynamic mode, whose own
\* element is mounted and measured (at 50) later: the container stays
\* attached, the scroll executor applies every request, the observer reports
\* the offset of the container, the adapter renders, and the timeouts fire.
NextConverge ==
  \/ WillUpdate
  \/ MeasureElement({0}, {100})
  \/ MeasureElement({MaxCount - 1}, {50})
  \/ GetVirtualItems
  \/ /\ elementsCache # {}
     /\ scrollOffset = Some(0)
     /\ domScrollTop = 0
     /\ retryTimers = {}
     /\ ScrollToIndex({MaxCount - 1}, {"auto"}, {None})
  \/ OffsetEvent({}, {FALSE})
  \/ RetryFires

\* The effect that attaches the container runs, the element of the last
\* item is mounted, the adapter renders after a notification, the scroll
\* event of an applied request is delivered, and a timeout that is set
\* fires.
SpecConverge ==
  /\ InitRetry
  /\ [][NextConverge]_vars
  /\ WF_vars(WillUpdate)
  /\ WF_vars(MeasureElement({MaxCount - 1}, {50}))
  /\ WF_vars(GetVirtualItems)
  /\ WF_vars(OffsetEvent({}, {FALSE}))
  /\ WF_vars(RetryFires)

-----------------------------------------------------------------------------
(* Properties *)

\* The measurement options of the current options.
CurrentMeasurementOptions(opts) ==
  MeasurementOptionsOf(<<opts.count, opts.paddingStart, opts.scrollMargin,
                         opts.getItemKey, opts.enabled>>)

\* The from-scratch computation: an empty cache, every index from 0.
FromScratch(opts, sizes) ==
  BuildMeasurements(<<>>, 0, CurrentMeasurementOptions(opts), opts, sizes)

\* The sequence a call of getMeasurements() returns in the current state.
Returned == getMeasurements(Cur).val

\* The next call of getMeasurements() runs its compute function.
WillRecompute ==
  LET o == getMeasurementOptions(Cur)
  IN DepsChanged(<<o.val, o.st.itemSizeCache.id>>, o.st.memoMeasurements.deps)

\* The arguments resizeItem is called with: every index (the missing ones on
\* both sides included) and every size.
ResizeIndexes == (0 - 1)..MaxCount
ResizeSizes == SizeValues \cup {20, 50}

\* The item of the cache the call resizeItem(index, _) is about.
CachedItem(index) == At(measurementsCache, index)

\* The size the engine holds for an item: its measured size, else the size
\* of its measurement record.
HeldSize(item) ==
  IF item.key \in DOMAIN itemSizeCache.m THEN itemSizeCache.m[item.key]
                                         ELSE item.size

\* The state after the call resizeItem(index, size).
AfterResize(index, size) == resizeItem(Begin(Cur, "resizeItem"), index, size)

\* C1: with fixed options and index keys, the sequence getMeasurements()
\* returns after any interleaving of resizeItem and getMeasurements calls
\* (recomputed from the lowest dirty index on a reused prefix) is the
\* sequence a from-scratch computation gives for the current size map.
C1_IncrementalEqualsFromScratch ==
  options.enabled => Returned = FromScratch(options, itemSizeCache.m)

\* A two-lane list whose first item is measured and cached, with a later
\* index pending: the next recomputation reuses a non-empty prefix.
C1_Witness ==
  /\ lastOp = "resizeItem"
  /\ options.lanes = 2
  /\ Len(measurementsCache) = MaxCount
  /\ At(measurementsCache, 0).size = 80
  /\ pendingMeasuredCacheIndexes # {}
  /\ DirtyMin(pendingMeasuredCacheIndexes) >= 1
  /\ WillRecompute

\* Every item of a sequence ends at its start plus its size.
EndsAtStartPlusSize(measurements) ==
  \A j \in 1..Len(measurements) :
    measurements[j].end = measurements[j].start + measurements[j].size

\* C2: after any sequence of setOptions, resizeItem, measure and
\* recomputation, every item of the cache and of the returned sequence has
\* end = start + size.
C2_EndIsStartPlusSize ==
  /\ EndsAtStartPlusSize(measurementsCache)
  /\ EndsAtStartPlusSize(memoMeasurements.result)
  /\ EndsAtStartPlusSize(Returned)

\* A recomputed sequence with a gap, a measured item and an item that does
\* not start at 0.
C2_Witness ==
  /\ lastOp = "getMeasurements"
  /\ options.gap = 5
  /\ Len(measurementsCache) = MaxCount
  /\ \E j \in 1..Len(measurementsCache) :
       measurementsCache[j].size = 80 /\ measurementsCache[j].start > 0

\* The indices before i that are in the lane of item i.
SameLaneBefore(measurements, i) ==
  {j \in 0..(i - 1) : At(measurements, j).lane = At(measurements, i).lane}

\* Every item starts at the end of the preceding item of its lane plus the
\* gap, or at paddingStart + scrollMargin when it is the first of its lane.
LaneChained(measurements, opts) ==
  \A i \in 0..(Len(measurements) - 1) :
    LET before == SameLaneBefore(measurements, i)
    IN IF before = {}
         THEN At(measurements, i).start = opts.paddingStart + opts.scrollMargin
         ELSE LET last == CHOOSE j \in before : \A k \in before : j >= k
              IN At(measurements, i).start =
                   At(measurements, last).end + opts.gap

\* C3: every sequence getMeasurements() computes, a partial recomputation
\* included, chains each item to the preceding item of its lane: start =
\* that item's end + gap, or paddingStart + scrollMargin for the first item
\* of a lane.
C3_StartChainsToLanePredecessor ==
  (options.enabled /\ WillRecompute) => LaneChained(Returned, options)

\* The last item of each lane among the items before index i.
LaneLasts(measurements, i, lanes) ==
  {At(measurements, j) : j \in
     {j \in 0..(i - 1) :
        \A k \in 0..(i - 1) :
          At(measurements, k).lane = At(measurements, j).lane => k <= j}}

\* The reference rule: of the last items of the lanes, the one with the
\* smallest end, the smallest index on a tie.
ReferencePredecessor(measurements, i, lanes) ==
  LET lasts == LaneLasts(measurements, i, lanes)
  IN CHOOSE a \in lasts :
       \A b \in lasts :
         a.end < b.end \/ (a.end = b.end /\ a.index <= b.index)

C5_MeasureIsFullInvalidation ==
  lastOp = "measure" =>
    /\ notifications = <<FALSE>>
    /\ options.enabled => Returned = FromScratch(options, EmptyMap)

\* C6: a resizeItem call that changes the size requests a scroll
\* compensation exactly when the item's cached start is below the current
\* offset plus the pending adjustments; the request targets the unchanged
\* offset with adjustments = the previous pending adjustments + delta, and
\* without it no request is made and the pending adjustments stay.
C6_CompensationDecisionAndRequest ==
  \A index \in ResizeIndexes, size \in ResizeSizes :
    (Has(measurementsCache, index) /\ size # HeldSize(CachedItem(index))) =>
      LET item == CachedItem(index)
          delta == size - HeldSize(item)
          offset == getScrollOffset(Cur).val
          r == AfterResize(index, size)
      IN IF item.start < offset + scrollAdjustments
           THEN /\ r.scrollRequests =
                     <<[offset |-> offset,
                        adjustments |-> Some(scrollAdjustments + delta),
                        behavior |-> None]>>
                /\ r.scrollAdjustments = scrollAdjustments + delta
           ELSE /\ r.scrollRequests = <<>>
                /\ r.scrollAdjustments = scrollAdjustments

\* An item grew from 50 to 80 while the offset was 200: the request targets
\* 200 with adjustments 30.
C6_Witness ==
  /\ lastOp = "resizeItem"
  /\ scrollOffset = Some(200)
  /\ scrollAdjustments = 30
  /\ scrollRequests =
       <<[offset |-> 200, adjustments |-> Some(30), behavior |-> None]>>

\* The cache is the sequence getMeasurements() returns now, and the
\* container is attached and observed.
CacheIsCurrent ==
  /\ options.enabled
  /\ Subscribed(unsubs, "offset")
  /\ pendingMeasuredCacheIndexes = {}
  /\ ~WillRecompute
  /\ Returned = measurementsCache

\* For every resize of an item that starts before the effective offset, the
\* items at or after the effective offset are at the same distance from the
\* top of the container before the resize and after it (the positions read
\* from getMeasurements() and the container's scrollTop on both sides).
OnScreenPositionsKept ==
  \A index \in ResizeIndexes, size \in ResizeSizes :
    LET effective == getScrollOffset(Cur).val + scrollAdjustments
    IN (Has(measurementsCache, index)
        /\ CachedItem(index).start < effective) =>
         LET r == AfterResize(index, size)
             after == getMeasurements(r).val
         IN \A j \in 0..(Len(measurementsCache) - 1) :
              At(measurementsCache, j).start >= effective =>
                At(after, j).start - r.domScrollTop =
                  At(measurementsCache, j).start - domScrollTop

C8_ResizeNoOpOrRecorded ==
  \A index \in ResizeIndexes, size \in ResizeSizes :
    LET before == Begin(Cur, "resizeItem")
        r == AfterResize(index, size)
    IN IF ~Has(measurementsCache, index)
         THEN r = before
         ELSE LET item == CachedItem(index)
              IN IF size = HeldSize(item)
                   THEN r = before
                   ELSE /\ DOMAIN r.itemSizeCache.m =
                             DOMAIN itemSizeCache.m \cup {item.key}
                        /\ r.itemSizeCache.m[item.key] = size
                        /\ \A k \in DOMAIN itemSizeCache.m \ {item.key} :
                             r.itemSizeCache.m[k] = itemSizeCache.m[k]
                        /\ r.itemSizeCache.id # itemSizeCache.id
                        /\ index \in r.pendingMeasuredCacheIndexes
                        /\ r.notifications = <<FALSE>>

\* A resizeItem call that did nothing, on a list that holds a measured size
\* not yet in its measurement record.
C8_Witness ==
  /\ lastOp = "resizeItem"
  /\ notifications = <<>>
  /\ pendingMeasuredCacheIndexes # {}
  /\ \E j \in 0..(Len(measurementsCache) - 1) :
       /\ HeldSize(At(measurementsCache, j)) = 80
       /\ At(measurementsCache, j).size # 80

\* The engine record r still holds a size for every measured key.
KeepsSizes(r) ==
  \A k \in DOMAIN itemSizeCache.m : k \in DOMAIN r.itemSizeCache.m

\* Operations that never remove a measured size.
SizesKeptByUpdates ==
  /\ KeepsSizes(cleanup(Cur))
  /\ \A opts \in OptionSpace : KeepsSizes(setOptions(Cur, opts))
  /\ \A index \in ResizeIndexes, size \in ResizeSizes :
       KeepsSizes(resizeItem(Cur, index, size))

\* Operations that recompute the measurements.
SizesKeptByRecomputation ==
  /\ KeepsSizes(getMeasurements(Cur).st)
  /\ KeepsSizes(willUpdate(Cur))
  /\ KeepsSizes(RectCallback(Cur, domHeight))
  /\ KeepsSizes(OffsetCallback(Cur, domScrollTop, FALSE))

\* C9 as stated: no operation but measure() removes a measured size:
\* neither setOptions (toggling enabled included), nor detachment and
\* re-attachment, nor a recomputation.
C9_OnlyMeasureClearsSizes ==
  SizesKeptByUpdates /\ SizesKeptByRecomputation

\* C9, with the disabled recomputation: setOptions, resizeItem and the
\* teardown never remove a measured size, and a recomputation (by
\* getMeasurements, _willUpdate or an observer callback) removes none while
\* enabled is true; the sizes go with measure() or with a recomputation
\* that runs while enabled is false.
C9_SizesKeptWhileEnabled ==
  /\ SizesKeptByUpdates
  /\ options.enabled => SizesKeptByRecomputation
  /\ measure(Cur).itemSizeCache.m = EmptyMap
  /\ (~options.enabled /\ WillRecompute) =>
       getMeasurements(Cur).st.itemSizeCache.m = EmptyMap

\* The container was torn down and the measured sizes are still held.
C9_Witness ==
  /\ lastOp = "unmount"
  /\ scrollElement = None
  /\ options.enabled
  /\ DOMAIN itemSizeCache.m # {}

\* The key extractor changed since the measurement options were computed.
KeyExtractorChanged ==
  /\ Len(memoMeasurementOptions.deps) = 5
  /\ memoMeasurementOptions.deps[4] # options.getItemKey

\* C10: measured sizes follow keys: after the key extractor changes, the
\* recomputed sequence gives the item at each index the measured size of
\* the key now at that index, and the estimate of the index when that key
\* was never measured.
C10_SizesFollowKeys ==
  (options.enabled /\ KeyExtractorChanged) =>
    LET M == Returned
    IN /\ Len(M) = options.count
       /\ \A j \in 0..(Len(M) - 1) :
            LET key == GetItemKey(options.getItemKey, j)
            IN /\ At(M, j).key = key
               /\ At(M, j).size =
                    IF key \in DOMAIN itemSizeCache.m
                      THEN itemSizeCache.m[key]
                      ELSE EstimateSize(options.estimateSize, j)

\* After a prepend the measured size of key 0 is shown at index 1, and
\* index 0 (a key never measured) has its estimate.
C10_Witness ==
  /\ lastOp = "getMeasurements"
  /\ options.getItemKey = "prepended"
  /\ DOMAIN itemSizeCache.m = {0}
  /\ Len(measurementsCache) = MaxCount
  /\ At(measurementsCache, 0).size = EstimateSize(options.estimateSize, 0)
  /\ At(measurementsCache, 1).key = 0
  /\ At(measurementsCache, 1).size = 80
  /\ EstimateSize(options.estimateSize, 1) # 80

\* C11: the measurement computation is pure in the current options: right
\* after any setOptions call getMeasurements() returns what a from-scratch
\* computation with the current options and size map returns, so no option
\* the computation reads (gap, lanes, estimateSize) changes without the
\* returned positions reflecting it.
C11_ReturnedReflectsCurrentOptions ==
  (lastOp = "setOptions" /\ options.enabled) =>
    getMeasurements(Cur).val = FromScratch(options, itemSizeCache.m)

\* The range a call of this.calculateRange() returns in the current state.
RangeNow == calculateRangeMemo(Cur).val

\* The viewport size getSize() returns in the current state.
SizeNow == getSize(Cur).val

\* 0 <= startIndex <= endIndex <= count - 1
WithinBounds(r, count) ==
  /\ 0 <= r.startIndex
  /\ r.startIndex <= r.endIndex
  /\ r.endIndex <= count - 1

\* C12: whenever count > 0 and the viewport size is > 0 a range is computed
\* and it satisfies 0 <= startIndex <= endIndex <= count - 1: the range the
\* engine computes now, the range it holds, and the range function applied
\* to the current measurements for every offset (negative ones and ones
\* beyond the content included), every positive viewport size and the lane
\* count.
C12_RangeWithinBounds ==
  /\ (options.enabled /\ options.count > 0 /\ SizeNow > 0) =>
       (IsSome(RangeNow) /\ WithinBounds(Val(RangeNow), options.count))
  /\ IsSome(range) => WithinBounds(Val(range), options.count)
  /\ (options.enabled /\ options.count > 0) =>
       \A off \in RangeOffsets, size \in ViewportSizes \ {0} :
         WithinBounds(calculateRange(Returned, size, off, options.lanes),
                      options.count)

\* A two-lane list with an odd number of items overscrolled above its
\* content: the backward expansion runs below index 0 and the last row is
\* partial, and the range is the whole list.
C12_Witness ==
  /\ lastOp = "offsetEvent"
  /\ options.lanes = 2
  /\ options.count = 3
  /\ scrollOffset = Some(0 - 10)
  /\ range = Some([startIndex |-> 0, endIndex |-> 2])

\* The indexes whose start is at or before the offset.
StartsAtOrBefore(measurements, off) ==
  {j \in 0..(Len(measurements) - 1) : At(measurements, j).start <= off}

\* The floor index: the greatest index whose start <= the offset, 0 if none.
FloorIndex(measurements, off) ==
  LET S == StartsAtOrBefore(measurements, off)
  IN IF S = {} THEN 0 ELSE CHOOSE j \in S : \A k \in S : k <= j

\* The smallest index >= from whose end >= limit, the last index if none.
FirstEndingAtOrAfter(measurements, from, limit) ==
  LET S == {j \in from..(Len(measurements) - 1) :
              At(measurements, j).end >= limit}
  IN IF S = {} THEN Len(measurements) - 1
               ELSE CHOOSE j \in S : \A k \in S : j <= k

\* The end of a single-lane range, given its start.
SingleLaneEnd(r, measurements, off, size) ==
  r.endIndex = FirstEndingAtOrAfter(measurements, r.startIndex, off + size)

\* The single-lane rule as stated: the floor index, then the forward scan.
SingleLaneFloorRule(r, measurements, off, size) ==
  /\ r.startIndex = FloorIndex(measurements, off)
  /\ SingleLaneEnd(r, measurements, off, size)

\* The single-lane rule with starts that may repeat: an index whose start
\* is the offset when there is one, else the floor index.
SingleLaneFoundRule(r, measurements, off, size) ==
  /\ IF \E j \in 0..(Len(measurements) - 1) : At(measurements, j).start = off
       THEN At(measurements, r.startIndex).start = off
       ELSE r.startIndex = FloorIndex(measurements, off)
  /\ SingleLaneEnd(r, measurements, off, size)

\* A single-lane list of more than one item whose range is computed.
SingleLaneList ==
  options.enabled /\ options.lanes = 1 /\ Len(Returned) > 1

\* C13 as stated: single lane, more than one item: startIndex is the
\* greatest index whose start <= scrollOffset (0 if none) and endIndex the
\* smallest index >= startIndex whose end >= scrollOffset + outerSize (the
\* last index if none).
C13_SingleLaneFloorAndScan ==
  SingleLaneList =>
    /\ \A off \in RangeOffsets, size \in ViewportSizes \ {0} :
         SingleLaneFloorRule(calculateRange(Returned, size, off, 1),
                             Returned, off, size)
    /\ SizeNow > 0 =>
         SingleLaneFloorRule(Val(RangeNow), Returned,
                             getScrollOffset(Cur).val, SizeNow)

\* C13, repeated starts: single lane, more than one item: startIndex is an
\* index whose start equals scrollOffset when such an item exists (several
\* zero-size items can share that start, and it need not be the greatest of
\* them), otherwise the greatest index whose start < scrollOffset (0 if
\* none); endIndex is the smallest index >= startIndex whose end >=
\* scrollOffset + outerSize (the last index if none).
C13_SingleLaneFoundAndScan ==
  SingleLaneList =>
    /\ \A off \in RangeOffsets, size \in ViewportSizes \ {0} :
         SingleLaneFoundRule(calculateRange(Returned, size, off, 1),
                             Returned, off, size)
    /\ SizeNow > 0 =>
         SingleLaneFoundRule(Val(RangeNow), Returned,
                             getScrollOffset(Cur).val, SizeNow)

\* Three items of 50 in a viewport of 30 scrolled to 60: the range is item 1
\* alone.
C13_Witness ==
  /\ lastOp = "offsetEvent"
  /\ options.lanes = 1
  /\ options.count = 3
  /\ options.estimateSize = "uniform"
  /\ DOMAIN itemSizeCache.m = {}
  /\ scrollRect = Some(30)
  /\ scrollOffset = Some(60)
  /\ range = Some([startIndex |-> 1, endIndex |-> 1])

\* The extent [start, end) of the item meets [off, off + size).
MeetsViewport(item, off, size) ==
  /\ item.start < item.end
  /\ item.start < off + size
  /\ item.end > off

\* Every item that meets the viewport has its index in the range.
CoversViewport(r, measurements, off, size) ==
  \A j \in 0..(Len(measurements) - 1) :
    MeetsViewport(At(measurements, j), off, size) =>
      (r.startIndex <= j /\ j <= r.endIndex)

\* C14: the computed range covers the viewport for any lane count: every
\* item whose extent [start, end) intersects [scrollOffset, scrollOffset +
\* outerSize) has its index within [startIndex, endIndex], lanes of very
\* uneven item sizes included.
C14_RangeCoversViewport ==
  (options.enabled /\ Len(Returned) > 0) =>
    /\ \A off \in RangeOffsets, size \in ViewportSizes \ {0} :
         CoversViewport(calculateRange(Returned, size, off, options.lanes),
                        Returned, off, size)
    /\ SizeNow > 0 =>
         CoversViewport(Val(RangeNow), Returned, getScrollOffset(Cur).val,
                        SizeNow)

\* Two lanes of uneven items (100 beside a hidden item of size 0, the third
\* item under the hidden one) scrolled to 50: the search finds index 2 and
\* the backward expansion brings in item 0, which still meets the viewport.
C14_Witness ==
  /\ lastOp = "offsetEvent"
  /\ options.lanes = 2
  /\ options.count = 3
  /\ options.estimateSize = "falling"
  /\ scrollOffset = Some(50)
  /\ pendingMeasuredCacheIndexes = {}
  /\ Len(measurementsCache) = 3
  /\ At(measurementsCache, 1).size = 0
  /\ At(measurementsCache, 2).start = 0
  /\ MeetsViewport(At(measurementsCache, 0), 50, OrElse(scrollRect, 0))
  /\ range = Some([startIndex |-> 0, endIndex |-> 2])

\* The range starts on the first index of a lane-row and ends on the last
\* index of a lane-row or on the last item.
WholeRows(r, lanes, lastIndex) ==
  /\ r.startIndex % lanes = 0
  /\ (r.endIndex % lanes = lanes - 1 \/ r.endIndex = lastIndex)

\* C15: for lanes > 1 and more items than lanes the returned startIndex is a
\* multiple of lanes and the returned endIndex is the last index of its
\* lane-row or the last item of the collection: no partial row is returned.
C15_RangeOfWholeRows ==
  (options.enabled /\ options.lanes > 1 /\ Len(Returned) > options.lanes) =>
    /\ \A off \in RangeOffsets, size \in ViewportSizes \ {0} :
         WholeRows(calculateRange(Returned, size, off, options.lanes),
                   options.lanes, Len(Returned) - 1)
    /\ SizeNow > 0 =>
         WholeRows(Val(RangeNow), options.lanes, Len(Returned) - 1)

\* Four items in two lanes, a viewport of 30 at the top: the forward
\* expansion stops at index 2 and the range ends on index 3, the end of the
\* second row.
C15_Witness ==
  /\ lastOp = "rectEvent"
  /\ options.lanes = 2
  /\ options.count = 4
  /\ options.estimateSize = "uniform"
  /\ DOMAIN itemSizeCache.m = {}
  /\ scrollRect = Some(30)
  /\ scrollOffset = Some(0)
  /\ range = Some([startIndex |-> 0, endIndex |-> 3])

\* The targets the binary search is asked for.
SearchTargets == RangeOffsets \cup {0 - 1, 5, 15, 70, 100, 150}

\* The sorted values of the example: 0, 10, 20, 30.
ExampleStarts == [j \in 1..4 |-> [start |-> 10 * (j - 1)]]

\* k is the floor-search answer for the target in the starts of the
\* sequence: a match if there is one, else the highest index below the
\* target, else 0.
IsFloorAnswer(k, measurements, target) ==
  /\ Has(measurements, k)
  /\ IF \E j \in 0..(Len(measurements) - 1) :
          At(measurements, j).start = target
       THEN At(measurements, k).start = target
       ELSE k = FloorIndex(measurements, target)

\* The starts of the sequence never decrease.
StartsSorted(measurements) ==
  \A j \in 1..(Len(measurements) - 1) :
    measurements[j].start <= measurements[j + 1].start

\* C16: on any non-decreasing sequence and any target the binary search
\* returns an index whose value equals the target if there is one, else the
\* highest index whose value is <= the target, and 0 when the target is
\* below every value; on the starts 0, 10, 20, 30 it returns 1 for 15, 0 for
\* 5 and 0 for -1.
C16_BinarySearchFloor ==
  /\ findNearestBinarySearch(0, 3, ExampleStarts, 15) = 1
  /\ findNearestBinarySearch(0, 3, ExampleStarts, 5) = 0
  /\ findNearestBinarySearch(0, 3, ExampleStarts, 0 - 1) = 0
  /\ (options.enabled /\ Len(Returned) > 0) =>
       /\ StartsSorted(Returned)
       /\ \A target \in SearchTargets :
            IsFloorAnswer(
              findNearestBinarySearch(0, Len(Returned) - 1, Returned, target),
              Returned, target)

\* Four items of 50 scrolled to 60, between the starts 50 and 100: the
\* search made for the range returned index 1.
C16_Witness ==
  /\ lastOp = "offsetEvent"
  /\ options.lanes = 1
  /\ options.count = 4
  /\ options.estimateSize = "uniform"
  /\ DOMAIN itemSizeCache.m = {}
  /\ scrollRect = Some(100)
  /\ scrollOffset = Some(60)
  /\ range = Some([startIndex |-> 1, endIndex |-> 3])

\* The sequence lists the indices lo..hi in ascending order, one by one.
IsRun(indexes, lo, hi) ==
  /\ Len(indexes) = hi - lo + 1
  /\ \A k \in 1..Len(indexes) : indexes[k] = lo + k - 1

\* The overscan values the extractor is asked for.
Overscans == {0, 1, 2}

\* The first and the last index to render for a visible range.
RenderedFrom(r, overscan) == Max(r.startIndex - overscan, 0)
RenderedTo(r, overscan, count) == Min(r.endIndex + overscan, count - 1)

\* C17: the default range extractor returns the contiguous ascending indices
\* from max(startIndex - overscan, 0) to min(endIndex + overscan, count - 1),
\* and getVirtualItems returns the measurement records of exactly those
\* indices, in that order.
C17_RenderedIndicesAndItems ==
  /\ \A overscan \in Overscans, e \in 0..(options.count - 1) :
       \A s \in 0..e :
         IsRun(defaultRangeExtractor([startIndex |-> s, endIndex |-> e,
                                      overscan |-> overscan,
                                      count |-> options.count]),
               Max(s - overscan, 0), Min(e + overscan, options.count - 1))
  /\ IsSome(RangeNow) =>
       /\ IsRun(getVirtualIndexes(Cur).val,
                RenderedFrom(Val(RangeNow), options.overscan),
                RenderedTo(Val(RangeNow), options.overscan, options.count))
       /\ Len(getVirtualItems(Cur).val) = Len(getVirtualIndexes(Cur).val)
       /\ \A k \in 1..Len(getVirtualItems(Cur).val) :
            getVirtualItems(Cur).val[k] =
              At(Returned, RenderedFrom(Val(RangeNow), options.overscan) + k - 1)

\* Three items of 50 in a viewport of 30 at offset 60: the range is item 1
\* alone, and the items were asked for, all three with an overscan of 1.
C17_Witness ==
  /\ lastOp = "getVirtualItems"
  /\ options.lanes = 1
  /\ options.count = 3
  /\ options.overscan = 1
  /\ options.estimateSize = "uniform"
  /\ DOMAIN itemSizeCache.m = {}
  /\ range = Some([startIndex |-> 1, endIndex |-> 1])
  /\ Len(getVirtualItems(Cur).val) = 3

\* The viewport size the engine holds: the reported rect, else the default
\* initial rect.
ViewportNow == OrElse(scrollRect, 0)

\* Nothing is to be rendered: no range, no indices, no items.
NothingToRender ==
  /\ RangeNow = None
  /\ getVirtualIndexes(Cur).val = <<>>
  /\ getVirtualItems(Cur).val = <<>>
  /\ lastOp = "getVirtualItems" => range = None

\* C18 as stated: when the list is empty, the viewport size is 0 (also before
\* any rect notification), no scroll container is attached, or the list is
\* disabled, the range is null and getVirtualIndexes and getVirtualItems
\* return an empty sequence.
C18_NoRangeWithoutContainer ==
  (\/ options.count = 0
   \/ ViewportNow = 0
   \/ scrollElement = None
   \/ ~options.enabled) => NothingToRender

\* C18 as the code has it: when the list is empty, the viewport size is 0
\* (also before any rect notification, as when no container was attached
\* yet), or the list is disabled, the range is null and getVirtualIndexes and
\* getVirtualItems return an empty sequence.
C18_NoRangeWithoutViewport ==
  (\/ options.count = 0
   \/ ViewportNow = 0
   \/ ~options.enabled) => NothingToRender

\* The adapter rendered a list of two items before its container was attached
\* and reported a rect: nothing to render.
C18_Witness ==
  /\ lastOp = "getVirtualItems"
  /\ options.enabled
  /\ options.count = 2
  /\ scrollElement = None
  /\ scrollRect = Some(0)
  /\ range = None

\* The offset the engine holds: the reported one, else the initial offset.
OffsetNow == getScrollOffset(Cur).val

\* The size of the scrollable content: 0 without a container.
ContentNow == IF IsSome(scrollElement) THEN domScrollHeight ELSE 0

\* The alignment that 'auto' resolves to for a target.
ResolvedAlign(target, align) ==
  IF align = "auto"
    THEN (IF target >= OffsetNow + SizeNow THEN "end" ELSE "start")
    ELSE align

\* Twice the shift of the target for an alignment.
TwiceShift(align, itemSize) ==
  IF align = "center" THEN itemSize - SizeNow
  ELSE IF align = "end" THEN 0 - 2 * SizeNow
  ELSE 0

\* The item sizes the alignment is asked for.
AlignItemSizes == {0, 40, 70, 100}

\* r is the aligned target clamped into [0, content size - viewport size],
\* and 0 when that bound is negative.
IsAlignedAndClamped(r, target, align, itemSize) ==
  /\ r >= 0
  /\ ContentNow - SizeNow >= 0 => r <= ContentNow - SizeNow
  /\ 2 * r = Max(Min(2 * (ContentNow - SizeNow),
                     2 * target
                       + TwiceShift(ResolvedAlign(target, align), itemSize)),
                 0)

\* C19: getOffsetForAlignment resolves 'auto' to 'end' if the target is at or
\* beyond the current offset plus the viewport size and to 'start' otherwise,
\* adds (itemSize - viewport size) / 2 for 'center', subtracts the viewport
\* size for 'end', leaves the target for 'start', and clamps the result into
\* [0, content size - viewport size]; the result is never negative, also when
\* the content is smaller than the viewport or no container is attached.
C19_AlignmentRule ==
  \A target \in AlignTargets, align \in Aligns, itemSize \in AlignItemSizes :
    IsAlignedAndClamped(
      getOffsetForAlignment(Cur, target, align, itemSize).val,
      target, align, itemSize)

\* The container was detached after it reported a viewport of 100, and
\* scrollToOffset then asked for offset 0.
C19_Witness ==
  /\ lastOp = "scrollToOffset"
  /\ scrollElement = None
  /\ scrollRect = Some(100)
  /\ scrollOffset = Some(70)
  /\ Len(scrollRequests) = 1
  /\ scrollRequests[1].offset = 0

\* The indexes getOffsetForIndex is asked for: one below and one above the
\* list included.
AskedIndexes == 0 - 1..MaxCount

\* The index clamped to [0, count - 1].
Clamped(index) == Max(0, Min(index, options.count - 1))

\* The edges of the viewport shrunk by the scroll paddings.
PaddedStart == OffsetNow + options.scrollPaddingStart
PaddedEnd == OffsetNow + SizeNow - options.scrollPaddingEnd

\* The item lies fully within the padded viewport.
FullyWithin(item) == item.start >= PaddedStart /\ item.end <= PaddedEnd

\* The item lies within the padded viewport and touches neither edge.
StrictlyWithin(item) == item.start > PaddedStart /\ item.end < PaddedEnd

\* The answer [offset, align] resolves to the violated edge and holds the
\* alignment rule applied to that edge of the item.
ResolvesToViolatedEdge(answer, item) ==
  \/ /\ answer[2] = "end"
     /\ item.end > PaddedEnd
     /\ answer[1] = getOffsetForAlignment(
                      Cur, item.end + options.scrollPaddingEnd,
                      "end", item.size).val
  \/ /\ answer[2] = "start"
     /\ item.start < PaddedStart
     /\ answer[1] = getOffsetForAlignment(
                      Cur, item.start - options.scrollPaddingStart,
                      "start", item.size).val

\* The answer of getOffsetForIndex(index, 'auto') follows the rule for the
\* item.
AutoAnswerFollowsRule(answer, item) ==
  IF FullyWithin(item)
    THEN answer[1] = OffsetNow
    ELSE ResolvesToViolatedEdge(answer, item)

\* C20: getOffsetForIndex(index, 'auto') returns the current offset unchanged
\* whenever the item lies fully within the viewport shrunk by the scroll
\* paddings; otherwise it resolves to 'end' or 'start' by the padded edge the
\* item violates and returns the alignment rule applied to
\* item.end + scrollPaddingEnd or item.start - scrollPaddingStart; the index
\* is first clamped to [0, count - 1].
C20_AutoKeepsOffsetOfVisibleItem ==
  \A index \in AskedIndexes :
    /\ getOffsetForIndex(Cur, index, "auto").val =
         getOffsetForIndex(Cur, Clamped(index), "auto").val
    /\ Has(measurementsCache, Clamped(index)) =>
         /\ IsSome(getOffsetForIndex(Cur, index, "auto").val)
         /\ AutoAnswerFollowsRule(
              Val(getOffsetForIndex(Cur, index, "auto").val),
              At(measurementsCache, Clamped(index)))

\* The answer [offset, align] for an item that reaches or passes the padded
\* end edge, else reaches or passes the padded start edge, else lies strictly
\* inside.
AutoAnswerFollowsEdgeTests(answer, item) ==
  IF item.end >= PaddedEnd
    THEN /\ answer[2] = "end"
         /\ answer[1] = getOffsetForAlignment(
                          Cur, item.end + options.scrollPaddingEnd,
                          "end", item.size).val
  ELSE IF item.start <= PaddedStart
    THEN /\ answer[2] = "start"
         /\ answer[1] = getOffsetForAlignment(
                          Cur, item.start - options.scrollPaddingStart,
                          "start", item.size).val
  ELSE answer = <<OffsetNow, "auto">>

\* C20 as the code has it: the index is first clamped to [0, count - 1] and
\* nothing is returned when the cache holds no such item; otherwise
\* getOffsetForIndex(index, 'auto') returns the current offset unchanged when
\* the item lies strictly inside the padded viewport, resolves to 'end' when
\* the item's end reaches or passes the padded end edge, and else to 'start',
\* the item's start reaching or passing the padded start edge, and returns
\* the alignment rule applied to item.end + scrollPaddingEnd or
\* item.start - scrollPaddingStart.
C20_AutoKeepsOffsetStrictlyInside ==
  \A index \in AskedIndexes :
    /\ getOffsetForIndex(Cur, index, "auto").val =
         getOffsetForIndex(Cur, Clamped(index), "auto").val
    /\ IF Has(measurementsCache, Clamped(index))
         THEN /\ IsSome(getOffsetForIndex(Cur, index, "auto").val)
              /\ AutoAnswerFollowsEdgeTests(
                   Val(getOffsetForIndex(Cur, index, "auto").val),
                   At(measurementsCache, Clamped(index)))
              /\ StrictlyWithin(At(measurementsCache, Clamped(index))) =>
                   Val(getOffsetForIndex(Cur, index, "auto").val)[1]
                     = OffsetNow
         ELSE getOffsetForIndex(Cur, index, "auto").val = None

\* A viewport of 30 at offset 70 shows the end of item 0 (0 to 100), whose
\* end touches the end edge and whose start is out of view:
\* getOffsetForIndex was called, and answers 'end' with the current offset.
C20_Witness ==
  /\ lastOp = "getOffsetForIndex"
  /\ IsSome(scrollElement)
  /\ domScrollHeight = 300
  /\ scrollRect = Some(30)
  /\ scrollOffset = Some(70)
  /\ options.scrollPaddingStart = 0
  /\ options.scrollPaddingEnd = 0
  /\ Has(measurementsCache, 0)
  /\ At(measurementsCache, 0).end = 100
  /\ getOffsetForIndex(Cur, 0, "auto").val = Some(<<70, "end">>)

\* The closure of observeElementOffset whose listeners are registered.
ListeningObserver(v) == CHOOSE o \in v.offsetObservers : o.listening

\* The engine after the container took the position of the last scroll
\* request and the offset observer reported it.
ExecutedAndObserved(v) == OffsetHandler(v, ListeningObserver(v), FALSE)

\* The viewport at the offset, shrunk by the scroll paddings, meets the
\* extent of the item.
PaddedViewportMeets(v, offset, size, item) ==
  /\ item.start <= offset + size - v.options.scrollPaddingEnd
  /\ item.end >= offset + v.options.scrollPaddingStart

\* The answer [offset, align] of getOffsetForIndex in the engine v shows the
\* item, and for 'auto' asks for no movement.
ShowsItemWithoutMoving(v, answer, item, align) ==
  /\ PaddedViewportMeets(v, answer[1], getSize(v).val, item)
  /\ align = "auto" => answer[1] = getScrollOffset(v).val

\* getOffsetForIndex(index, align) in the engine v answers, shows the item
\* and for 'auto' asks for no movement.
SettledAt(v, index, align) ==
  /\ IsSome(getOffsetForIndex(v, index, align).val)
  /\ ShowsItemWithoutMoving(v, Val(getOffsetForIndex(v, index, align).val),
                            At(v.measurementsCache, index), align)

\* C21: after scrollToIndex(i) was issued, executed and observed, with no
\* resize in between, getOffsetForIndex(i) yields an offset whose viewport,
\* shrunk by the scroll paddings, meets the extent of item i, and for 'auto'
\* that offset is the current offset: a second scrollToIndex(i) asks for no
\* movement.
C21_ScrollToIndexIdempotent ==
  (Subscribed(unsubs, "offset") /\ IsSome(scrollElement)) =>
    \A index \in 0..(Len(measurementsCache) - 1), align \in IndexAligns :
      SettledAt(ExecutedAndObserved(scrollToIndex(Cur, index, align, None)),
                index, align)

\* The item is no larger than the viewport of the engine v shrunk by the
\* scroll paddings.
FitsPaddedViewport(v, item) ==
  item.size <= getSize(v).val - v.options.scrollPaddingStart
                 - v.options.scrollPaddingEnd

\* The answer [offset, align] of getOffsetForIndex in the engine v shows the
\* item, and for 'auto' asks for no movement when the item fits.
ShowsItemWithoutMovingIfFits(v, answer, item, align) ==
  /\ PaddedViewportMeets(v, answer[1], getSize(v).val, item)
  /\ (align = "auto" /\ FitsPaddedViewport(v, item)) =>
       answer[1] = getScrollOffset(v).val

\* getOffsetForIndex(index, align) in the engine v answers, shows the item
\* and for 'auto' asks for no movement when the item fits.
SettledIfFitsAt(v, index, align) ==
  /\ IsSome(getOffsetForIndex(v, index, align).val)
  /\ ShowsItemWithoutMovingIfFits(
       v, Val(getOffsetForIndex(v, index, align).val),
       At(v.measurementsCache, index), align)

\* C21 as the code has it: after scrollToIndex(i) was issued, executed and
\* observed, with no resize in between, getOffsetForIndex(i) yields an offset
\* whose viewport, shrunk by the scroll paddings, meets the extent of item i;
\* for 'auto' that offset is the current offset when item i is no larger than
\* the padded viewport.
C21_ScrollToIndexSettlesIfItemFits ==
  (Subscribed(unsubs, "offset") /\ IsSome(scrollElement)) =>
    \A index \in 0..(Len(measurementsCache) - 1), align \in IndexAligns :
      SettledIfFitsAt(
        ExecutedAndObserved(scrollToIndex(Cur, index, align, None)),
        index, align)

\* scrollToIndex(2) was issued in a viewport of 100, the container moved to
\* 110 and the observer reported it: getOffsetForIndex(2) answers 110.
C21_Witness ==
  /\ lastOp = "offsetEvent"
  /\ scrollRect = Some(100)
  /\ scrollOffset = Some(110)
  /\ domScrollTop = 110
  /\ getOffsetForIndex(Cur, 2, "auto").val = Some(<<110, "end">>)

\* The deltas scrollBy is asked for.
ByDeltas == {0 - 60, 0, 60, 250}

\* The scroll requests an operation makes from the current state.
RequestsOf(after) == after.scrollRequests

\* C22: for every current offset, delta and behavior, scrollBy(delta,
\* {behavior}) issues the same scroll request (offset, adjustments, behavior)
\* as scrollToOffset(current offset + delta, {align: 'start', behavior}) in
\* the same state, also when the sum is negative or beyond the largest
\* scrollable offset.
C22_ScrollByIsScrollToOffset ==
  \A delta \in ByDeltas, behavior \in Behaviors :
    RequestsOf(scrollBy(Begin(Cur, "scrollBy"), delta, behavior)) =
      RequestsOf(scrollToOffset(Begin(Cur, "scrollToOffset"),
                                OffsetNow + delta, "start", behavior))

\* C23: a scroll call cancels the deferred retry of scrollToIndex: when a
\* retry is pending and scrollToOffset, scrollBy or scrollToIndex is called,
\* no earlier retry is pending afterwards, in every reachable state, states
\* with a detached container included (scrollToIndex is called with the
\* smooth behavior, which sets no new timeout).
C23_ScrollCallsCancelRetry ==
  retryTimers # {} =>
    /\ scrollToOffset(Begin(Cur, "scrollToOffset"), 50, "start", None)
         .retryTimers = {}
    /\ scrollBy(Begin(Cur, "scrollBy"), 0, None).retryTimers = {}
    /\ \A index \in 0..(MaxCount - 1) :
         scrollToIndex(Begin(Cur, "scrollToIndex"), index, "auto",
                       Some("smooth")).retryTimers = {}

\* C24: detachment of the scroll container cancels the deferred retry: no
\* retry is pending while no container is attached, so no retry callback
\* runs and issues a scroll request after the detachment.
C24_DetachmentCancelsRetry ==
  /\ scrollElement = None => retryTimers = {}
  /\ (lastOp = "retry" /\ scrollElement = None) => scrollRequests = <<>>

\* The indexes scrollToIndex is asked for.
ToIndexes == 0 - 1..MaxCount

\* The call set a timeout: the pending timeouts after it are not those that
\* its cancellation left.
Scheduled(after) == after.retryTimers # cancelScrollToIndex(Cur).retryTimers

\* The element of the item at the index is mounted.
TargetMounted(index) ==
  GetItemKey(options.getItemKey, Clamped(index)) \in elementsCache

\* getOffsetForIndex yields an offset for the index.
HasOffset(index, align) == IsSome(getOffsetForIndex(Cur, index, align).val)

\* scrollToIndex sets a timeout only for a target that is not mounted and a
\* behavior that is not smooth, and asks for nothing without an offset.
SchedulesForUnmountedTarget(after, index, align, behavior) ==
  /\ Scheduled(after) =>
       /\ behavior # Some("smooth")
       /\ ~TargetMounted(index)
       /\ HasOffset(index, align)
  /\ ~HasOffset(index, align) => after.scrollRequests = <<>>

\* C25: scrollToIndex schedules a deferred retry only when the behavior is
\* not smooth and the element of the target item is not mounted; none with
\* the smooth behavior, none when the target's element is mounted, and none
\* when getOffsetForIndex yields no offset, in which case it issues no scroll
\* request either.
C25_RetryOnlyForUnmountedTarget ==
  \A index \in ToIndexes, align \in IndexAligns, behavior \in Behaviors :
    SchedulesForUnmountedTarget(
      scrollToIndex(Begin(Cur, "scrollToIndex"), index, align, behavior),
      index, align, behavior)

\* scrollToIndex sets a timeout exactly when it has an offset, the behavior
\* is not smooth, some item holds an element and a window is attached, and
\* asks for nothing without an offset.
SchedulesInDynamicMode(after, index, align, behavior) ==
  /\ Scheduled(after) <=>
       /\ HasOffset(index, align)
       /\ behavior # Some("smooth")
       /\ elementsCache # {}
       /\ IsSome(targetWindow)
  /\ Scheduled(after) =>
       /\ Cardinality(after.retryTimers) = 1
       /\ \A t \in after.retryTimers :
            /\ t.index = Clamped(index)
            /\ t.behavior = behavior
            /\ t.align = Val(getOffsetForIndex(Cur, index, align).val)[2]
  /\ ~HasOffset(index, align) => after.scrollRequests = <<>>
  /\ HasOffset(index, align) => Len(after.scrollRequests) = 1

\* C25 as the code has it: scrollToIndex schedules a deferred retry exactly
\* when getOffsetForIndex yields an offset, the behavior is not smooth, at
\* least one item holds an element and a container is attached, whether or
\* not the target's own element is mounted; without an offset it schedules
\* nothing and issues no scroll request.
C25_RetryInDynamicMode ==
  \A index \in ToIndexes, align \in IndexAligns, behavior \in Behaviors :
    SchedulesInDynamicMode(
      scrollToIndex(Begin(Cur, "scrollToIndex"), index, align, behavior),
      index, align, behavior)

\* The element of item 2 is mounted and scrollToIndex(2) was called: its
\* timeout is pending.
C25_Witness ==
  /\ lastOp = "scrollToIndex"
  /\ elementsCache = {2}
  /\ IsSome(scrollToIndexTimeoutId)
  /\ \E t \in retryTimers : t.index = 2

\* The offset getOffsetForIndex computes now for the target of the timer.
LatestOffset(t) == Val(getOffsetForIndex(Cur, t.index, t.align).val)[1]

\* The timer's target holds an element and has an offset.
MountedTarget(t) ==
  /\ GetItemKey(options.getItemKey, t.index) \in elementsCache
  /\ IsSome(getOffsetForIndex(Cur, t.index, t.align).val)

\* The callback left nothing behind: no scroll request, no timeout.
NothingFurther(after) ==
  after.scrollRequests = <<>> /\ after.retryTimers = {}

\* The callback asked again for the latest offset, with the behavior of the
\* first call.
AskedAgain(after, t) ==
  /\ Len(after.scrollRequests) = 1
  /\ after.scrollRequests[1].offset = LatestOffset(t)
  /\ after.scrollRequests[1].behavior = t.behavior
  /\ \A u \in after.retryTimers : u.index = t.index /\ u.align = t.align

\* C26: when a retry fires for a target whose element is mounted, it
\* computes the offset again with the alignment resolved by the first call
\* and issues scrollToIndex again if and only if that offset differs from the
\* current one by more than 1; within the tolerance it issues no scroll
\* request and schedules nothing.
C26_RetryBeyondOnePixel ==
  \A t \in retryTimers :
    MountedTarget(t) =>
      IF Abs(LatestOffset(t) - OffsetNow) > 1
        THEN AskedAgain(retryCallback(Begin(Cur, "retry"), t), t)
        ELSE NothingFurther(retryCallback(Begin(Cur, "retry"), t))

\* C26 as the code has it: the retry issues scrollToIndex again if and only
\* if the offsets differ by 1 or more (approxEqual: a difference below 1).
C26_RetryFromOnePixel ==
  \A t \in retryTimers :
    MountedTarget(t) =>
      IF Abs(LatestOffset(t) - OffsetNow) >= 1
        THEN AskedAgain(retryCallback(Begin(Cur, "retry"), t), t)
        ELSE NothingFurther(retryCallback(Begin(Cur, "retry"), t))

\* Item 2 was measured at 41 after scrollToIndex(2) brought the container to
\* 110; the retry fired with the end of item 2 at 211 and asked for 111.
C26_Witness ==
  /\ lastOp = "retry"
  /\ 2 \in elementsCache
  /\ scrollOffset = Some(110)
  /\ Len(scrollRequests) = 1
  /\ scrollRequests[1].offset = 111

\* The offset is within the tolerance of the offset computed for the last
\* item, once the container was asked to leave offset 0.
AtTarget ==
  (domScrollTop # 0 /\ IsSome(getOffsetForIndex(Cur, MaxCount - 1, "end").val))
    => approxEqual(Val(getOffsetForIndex(Cur, MaxCount - 1, "end").val)[1],
                   OffsetNow)

\* A retry that fires for a target without an element, in dynamic mode with
\* a container attached, sets the next timeout.
RearmsWhileUnmounted ==
  \A t \in retryTimers :
    (/\ GetItemKey(options.getItemKey, t.index) \notin elementsCache
     /\ elementsCache # {}
     /\ IsSome(targetWindow)
     /\ IsSome(getOffsetForIndex(Cur, t.index, t.align).val))
      => retryCallback(Begin(Cur, "retry"), t).retryTimers # {}

\* C27: when the target's element is eventually mounted, the sizes stop
\* changing, every request is applied and every resulting offset is
\* reported, the chain of retries ends: eventually no retry is pending and
\* the offset is within 1 of the computed target, for good. While the
\* target's element is not mounted and the engine stays attached in dynamic
\* mode, a retry that fires sets the next one.
C27_RetriesConverge ==
  /\ <>[](retryTimers = {} /\ AtTarget)
  /\ []RearmsWhileUnmounted

\* The tuples differ in length or in some element.
TuplesDiffer(a, b) ==
  \/ Len(a) # Len(b)
  \/ \E k \in 1..Len(a) : k <= Len(b) /\ a[k] # b[k]

\* A call with tuple newDeps ran fn anew: fn and onChange were called once
\* more, and the tuple and the result of that run are stored and returned.
Reran(c, newDeps) ==
  /\ c.st.runs = memoized.runs + 1
  /\ c.st.changes = memoized.changes + 1
  /\ c.st.deps = newDeps
  /\ c.st.result = ResultOf(newDeps, c.st.runs)
  /\ c.val = c.st.result

\* A call returned the stored result and left the closure as it was.
Reused(c) ==
  /\ c.st = memoized
  /\ c.val = memoized.result

\* C28: a call of a memoized function runs its compute function again if
\* and only if the gathered tuple differs from the stored one in length or
\* in some element; then the stored tuple and result are replaced (and
\* onChange runs); otherwise the stored result is returned and neither the
\* compute function nor onChange runs.
C28_MemoRerunsIffDepsDiffer ==
  \A newDeps \in DepTuples :
    IF TuplesDiffer(newDeps, memoized.deps)
      THEN Reran(memoizedFunction(memoized, newDeps), newDeps)
      ELSE Reused(memoizedFunction(memoized, newDeps))

\* A call with the stored tuple <<1, 2>> has just returned the result of
\* the second run, after calls with tuples of other lengths and values.
C28_Witness ==
  /\ lastOp = "memo"
  /\ memoized.deps = <<1, 2>>
  /\ memoized.result = ResultOf(<<1, 2>>, 2)
  /\ memoized.runs = 2
  /\ memoized.changes = 2

\* The four fields of the scroll state of an engine record.
ScrollState(v) ==
  <<v.scrollOffset, v.isScrolling, v.scrollDirection, v.scrollAdjustments>>

\* The inputs of the operations that are not scroll operations.
FrameIndexes == 0..(MaxCount - 1)

FrameAligns == {"auto", "start", "center", "end"}

\* C29 as stated: setOptions, getMeasurements (which getTotalSize runs),
\* getVirtualItems, getOffsetForIndex, measure and resizeItem leave the
\* offset, isScrolling, the direction and the pending adjustment unchanged.
C29_OthersLeaveScrollState ==
  /\ \A opts \in FrameOptionSpace :
       ScrollState(setOptions(Cur, opts)) = ScrollState(Cur)
  /\ ScrollState(getMeasurements(Cur).st) = ScrollState(Cur)
  /\ ScrollState(measure(Cur)) = ScrollState(Cur)
  /\ ScrollState(getVirtualItems(Cur).st) = ScrollState(Cur)
  /\ \A index \in FrameIndexes, align \in FrameAligns :
       ScrollState(getOffsetForIndex(Cur, index, align).st) = ScrollState(Cur)
  /\ \A index \in FrameIndexes, size \in SizeValues :
       ScrollState(resizeItem(Cur, index, size)) = ScrollState(Cur)

\* The offset field after a read of the offset: dropped when the list is
\* disabled, else the stored offset, or the initial offset when none is
\* stored.
OffsetRead ==
  IF options.enabled THEN Some(OrElse(scrollOffset, options.initialOffset))
                     ELSE None

\* isScrolling and the direction are those of the current state; the offset
\* is the current one or the one a read leaves.
KeepsScrolling(r) ==
  /\ r.isScrolling = isScrolling
  /\ r.scrollDirection = scrollDirection
  /\ r.scrollOffset \in {scrollOffset, OffsetRead}

\* The pending adjustment after resizeItem: unchanged, or grown by the size
\* delta together with a scroll request that carries the new sum.
AdjustsWithRequest(r, index, size) ==
  \/ r.scrollAdjustments = scrollAdjustments /\ r.scrollRequests = <<>>
  \/ /\ Has(measurementsCache, index)
     /\ r.scrollAdjustments =
          scrollAdjustments + size - HeldSize(CachedItem(index))
     /\ Len(r.scrollRequests) = 1
     /\ r.scrollRequests[1].adjustments = Some(r.scrollAdjustments)

\* C29, amended: setOptions, getMeasurements (which getTotalSize runs) and
\* measure leave the four fields unchanged; getVirtualItems and
\* getOffsetForIndex leave isScrolling, the direction and the pending
\* adjustment unchanged and touch the offset only by the read (a stored
\* offset is kept while the list is enabled); resizeItem in addition adds
\* the size delta to the pending adjustment when it issues its compensating
\* scroll request.
C29_OthersKeepScrollingAndStoredOffset ==
  /\ \A opts \in FrameOptionSpace :
       ScrollState(setOptions(Cur, opts)) = ScrollState(Cur)
  /\ ScrollState(getMeasurements(Cur).st) = ScrollState(Cur)
  /\ ScrollState(measure(Cur)) = ScrollState(Cur)
  /\ KeepsScrolling(getVirtualItems(Cur).st)
  /\ getVirtualItems(Cur).st.scrollOffset = OffsetRead
  /\ getVirtualItems(Cur).st.scrollAdjustments = scrollAdjustments
  /\ \A index \in FrameIndexes, align \in FrameAligns :
       /\ KeepsScrolling(getOffsetForIndex(Cur, index, align).st)
       /\ getOffsetForIndex(Cur, index, align).st.scrollAdjustments =
            scrollAdjustments
  /\ \A index \in FrameIndexes, size \in SizeValues :
       /\ KeepsScrolling(AfterResize(index, size))
       /\ AdjustsWithRequest(AfterResize(index, size), index, size)

\* resizeItem has just compensated while the user scrolls forward at
\* FrameOffset: the pending adjustment is the size delta 30, the other fields are
\* those of the last scroll event.
C29_Witness ==
  /\ lastOp = "resizeItem"
  /\ scrollAdjustments = 30
  /\ Len(scrollRequests) = 1
  /\ scrollOffset = Some(FrameOffset)
  /\ isScrolling
  /\ scrollDirection = "forward"

\* The closures whose debounce timer is pending in an engine record.
Pending(v) == {o \in v.offsetObservers : IsSome(o.timer)}

\* A scroll tick at an offset, handled by closure o, reports (offset, true)
\* and, with the timer fallback, leaves a single timer, restarted at the
\* full delay and holding the offset.
TickReportsAndRestarts(r, o, offset) ==
  /\ r.isScrolling
  /\ r.scrollOffset = Some(offset)
  /\ Cardinality(Pending(r)) = IF o.debounced THEN 1 ELSE 0
  /\ \A q \in Pending(r) :
       /\ q.id = o.id
       /\ q.timer = Some(options.isScrollingResetDelay)
       /\ q.offset = offset

\* The due timer of closure o reports (the last observed offset, false) and
\* leaves no timer, so nothing further is reported without a new tick.
FiresOnceWithLastOffset(r, o) ==
  /\ ~r.isScrolling
  /\ scrollOffset = Some(o.offset)
  /\ r.scrollOffset = Some(o.offset)
  /\ Pending(r) = {}

\* What holds in every state of the observer: with the timer fallback a
\* timer is pending while the engine takes the container as scrolling.
DebounceKept ==
  /\ Cardinality(Pending(Cur)) <= 1
  /\ \A o \in offsetObservers :
       o.debounced = ~(options.useScrollendEvent /\ supportsScrollend)
  /\ (isScrolling /\ ~options.useScrollendEvent) => Pending(Cur) # {}
  /\ \A o \in offsetObservers :
       /\ IsSome(o.timer) => Val(o.timer) \in 0..options.isScrollingResetDelay
       /\ o.listening =>
            \A offset \in ObservedOffsets :
              TickReportsAndRestarts(
                OffsetHandler([Cur EXCEPT !.domScrollTop = offset], o, TRUE),
                o, offset)
       /\ o.timer = Some(0) =>
            FiresOnceWithLastOffset(DebouncedCallback(Cur, o), o)

\* A scroll tick: the handler of the scroll event has run.
ScrollTick == lastOp' = "offsetEvent" /\ isScrolling'

\* C30: every scroll tick reports (offset, true) and restarts the single
\* debounce timer at isScrollingResetDelay; the timer, once due, reports
\* (last observed offset, false) once; and when the ticks stop, the engine
\* is eventually told, for good, that scrolling has ended.
C30_ObserverDebounce ==
  /\ []DebounceKept
  /\ (<>[][~ScrollTick]_vars) => <>[](~isScrolling)

\* The timer has just fired, the delay 3 after the last tick at offset 120:
\* scrolling is over, the offset is the last one observed, no timer is left.
C30_Witness ==
  /\ lastOp = "debounce"
  /\ options.isScrollingResetDelay = 3
  /\ ~isScrolling
  /\ scrollOffset = Some(120)
  /\ domScrollTop = 120
  /\ Pending(Cur) = {}

\* The keys whose measured size the step records or changes.
ResizedKeys ==
  {k \in DOMAIN itemSizeCache'.m :
     k \notin DOMAIN itemSizeCache.m \/ itemSizeCache.m[k] # itemSizeCache'.m[k]}

\* The size the engine held, before the step, for the item of a key.
HeldSizeOfKey(k) ==
  IF k \in DOMAIN itemSizeCache.m THEN itemSizeCache.m[k]
  ELSE LET i == CHOOSE i \in 1..Len(measurementsCache) :
                  measurementsCache[i].key = k
       IN measurementsCache[i].size

\* The step is a resize that issued its compensating request.
CompensatedResize == lastOp' = "resizeItem" /\ scrollRequests' # <<>>

\* The step delivered an offset notification: a scroll event, or the report
\* the observer makes when it subscribes.
OffsetNotified ==
  \/ lastOp' = "offsetEvent"
  \/ lastOp' = "willUpdate" /\ scrollElement' # scrollElement
       /\ Subscribed(unsubs', "offset")

\* What a step does to the pending adjustment.
AdjustmentStep ==
  IF OffsetNotified THEN scrollAdjustments' = 0
  ELSE IF CompensatedResize
    THEN /\ Cardinality(ResizedKeys) = 1
         /\ \A k \in ResizedKeys :
              scrollAdjustments' =
                scrollAdjustments + itemSizeCache'.m[k] - HeldSizeOfKey(k)
         /\ Len(scrollRequests') = 1
         /\ scrollRequests'[1].adjustments = Some(scrollAdjustments')
    ELSE scrollAdjustments' = scrollAdjustments

\* C31: the pending adjustment is the sum of the deltas of the compensated
\* resizes since the last offset notification: every offset notification
\* sets it to 0, every compensated resize adds its delta and sends the new
\* total with its request, and no other step changes it.
C31_AdjustmentIsRunningTotal == [][AdjustmentStep]_vars

\* Two items grew from 50 to 80 since the last notification at offset 200:
\* the second request carries 60, not the delta 30.
C31_Witness ==
  /\ lastOp = "resizeItem"
  /\ scrollOffset = Some(200)
  /\ scrollAdjustments = 60
  /\ Len(scrollRequests) = 1
  /\ scrollRequests[1].adjustments = Some(60)

\* The sequence the next getMeasurements() returns after the call
\* resizeItem(index, size).
ReturnedAfterResize(index, size) ==
  getMeasurements(AfterResize(index, size)).val

\* C32: a resize is never lost: after resizeItem(index, size) for an item of
\* the cache of an enabled list, the next getMeasurements() reports the size
\* for that item, also when the call directly follows measure().
C32_ResizeNeverLost ==
  \A index \in ResizeIndexes, size \in ResizeSizes :
    (options.enabled /\ Has(measurementsCache, index)) =>
      /\ Has(ReturnedAfterResize(index, size), index)
      /\ At(ReturnedAfterResize(index, size), index).size = size

\* The engine after a recomputation of the measurements, about to run an
\* operation.
Refreshed == getMeasurements(Begin(Cur, "scrollToIndex")).st

\* C33: getOffsetForIndex and scrollToIndex work from item positions that
\* reflect every resizeItem, measure and setOptions so far: the offset they
\* compute, and the request scrollToIndex issues, are those they give when
\* the measurements are recomputed first.
C33_ScrollTargetsNeverStale ==
  \A index \in 0..(MaxCount - 1), align \in IndexAligns :
    /\ getOffsetForIndex(Begin(Cur, "scrollToIndex"), index, align).val =
         getOffsetForIndex(Refreshed, index, align).val
    /\ scrollToIndex(Begin(Cur, "scrollToIndex"), index, align,
                     None).scrollRequests =
         scrollToIndex(Refreshed, index, align, None).scrollRequests

\* C34: at most one deferred retry of scrollToIndex is outstanding: through
\* scroll calls, retry firings, detachments and attachments the window never
\* holds two pending retry timeouts, and scrollToIndexTimeoutId is set
\* exactly when one is pending, to the id of that timeout.
C34_AtMostOneRetry ==
  /\ Cardinality(retryTimers) <= 1
  /\ IsSome(scrollToIndexTimeoutId) <=> retryTimers # {}
  /\ \A t \in retryTimers : scrollToIndexTimeoutId = Some(t.id)

\* A retry is still pending after the container was detached and attached
\* again.
C34_Witness ==
  /\ lastOp = "willUpdate"
  /\ IsSome(targetWindow)
  /\ scrollRequests # <<>>
  /\ Cardinality(retryTimers) = 1
  /\ IsSome(scrollToIndexTimeoutId)


\* The subscriptions held are at most one of each kind, all for the element.
OneOfEach(subs, element, observers) ==
  /\ \A i, j \in 1..Len(subs) : subs[i].kind = subs[j].kind => i = j
  /\ \A i \in 1..Len(subs) : IsSome(element) /\ subs[i].element = element
  /\ Cardinality({o \in observers : o.listening}) <= 1

\* The element _willUpdate() finds.
FoundElement == IF options.enabled THEN options.getScrollElement ELSE None

\* The calls are the unsubscribe calls of the subscriptions held, each once
\* and in order, followed by subscribe calls for the element only.
UnsubscribesThenSubscribes(calls, held, element) ==
  /\ Len(calls) >= Len(held)
  /\ SubSeq(calls, 1, Len(held)) = Unsubscribed(held)
  /\ \A i \in (Len(held) + 1)..Len(calls) :
       /\ calls[i].call = "subscribe"
       /\ IsSome(element)
       /\ calls[i].of.element = element

\* C35: the subscription lifecycle. The engine holds at most one rect and
\* one offset subscription, both for the current scroll element. When
\* _willUpdate() finds another element (or none), every unsubscribe function
\* held is called once, before any subscription is made, and the new
\* subscriptions are for the element found; when the element is unchanged
\* _willUpdate() subscribes to nothing, unsubscribes nothing and issues no
\* scroll request. An unmount calls every unsubscribe function held once,
\* and no other operation subscribes or unsubscribes.
SubscriptionStep ==
  /\ OneOfEach(unsubs', scrollElement', offsetObservers')
  /\ IF lastOp' = "willUpdate"
       THEN IF scrollElement # FoundElement
              THEN UnsubscribesThenSubscribes(subscriptionCalls', unsubs,
                                              FoundElement)
              ELSE /\ subscriptionCalls' = <<>>
                   /\ scrollRequests' = <<>>
                   /\ unsubs' = unsubs
       ELSE IF lastOp' = "unmount"
              THEN subscriptionCalls' = Unsubscribed(unsubs) /\ unsubs' = <<>>
              ELSE subscriptionCalls' = <<>> /\ unsubs' = unsubs

C35_SubscriptionLifecycle == [][SubscriptionStep]_vars

\* _willUpdate() found the other container: two unsubscribe calls for the
\* first container, then two subscriptions for the other.
C35_Witness ==
  /\ lastOp = "willUpdate"
  /\ scrollElement = Some("other")
  /\ Len(subscriptionCalls) = 4
  /\ subscriptionCalls[1].of.element = Some("el")
  /\ Len(unsubs) = 2


\* C36: after the scroll container is detached no observer callback runs: a
\* debounced isScrolling = false report pending at the detachment does not
\* fire afterwards. In every step that starts and ends with no container,
\* the offset (as getScrollOffset() reports it), isScrolling, the direction
\* and the pending adjustments are unchanged and onChange is not called.
DetachedStep ==
  (scrollElement = None /\ scrollElement' = None) =>
    /\ lastOp' \notin {"debounce", "offsetEvent", "rectEvent"}
    /\ getScrollOffset(Cur).val' = getScrollOffset(Cur).val
    /\ UNCHANGED <<isScrolling, scrollDirection, scrollAdjustments>>
    /\ notifications' = <<>>

C36_NoCallbackAfterDetach == [][DetachedStep]_vars


\* The step is one notification of an observer: of the rect observer, of the
\* offset observer, or of its debounced report.
IsNotification ==
  lastOp' \in {"rectEvent", "offsetEvent", "debounce"}

\* C37: the change-notification decision. A rect or offset notification
\* calls onChange at most once, and only if (isScrolling, range.startIndex,
\* range.endIndex) differs from the tuple last recorded by maybeNotify or by
\* getVirtualIndexes; its sync flag is the current isScrolling. A
\* notification that changes neither the range nor isScrolling calls no
\* onChange.
NotificationStep ==
  IsNotification =>
    /\ Len(notifications') <= 1
    /\ notifications' # <<>> =>
         /\ NotifyDeps(isScrolling', range') # memoMaybeNotify.deps
         /\ notifications'[1] = isScrolling'
    /\ NotifyDeps(isScrolling', range') = NotifyDeps(isScrolling, range) =>
         notifications' = <<>>

C37_NotificationDecision == [][NotificationStep]_vars

\* A scroll event moved the range while scrolling: onChange(instance, true).
C37_Witness ==
  /\ lastOp = "offsetEvent"
  /\ isScrolling
  /\ notifications = <<TRUE>>
  /\ IsSome(range)
  /\ Val(range).startIndex > 0


\* The engine after the offset observer reported (offset, scrolling).
AfterNotified(offset, scrolling) ==
  OffsetCallback(Begin(Cur, "offsetEvent"), offset, scrolling)

\* The direction of a report, given the offset before it.
DirectionOf(offset, scrolling, previous) ==
  IF ~scrolling THEN "none"
  ELSE IF offset > previous THEN "forward" ELSE "backward"

\* The engine took the report: its offset and isScrolling are the reported
\* values and its direction is that of the report.
TookReport(after, offset, scrolling, previous) ==
  /\ getScrollOffset(after).val = offset
  /\ after.isScrolling = scrolling
  /\ after.scrollDirection = DirectionOf(offset, scrolling, previous)

\* C38: on each offset notification (offset, isScrolling) the engine sets
\* its offset and isScrolling to the notified values, and its direction to
\* none when isScrolling is false, forward when it is true and the offset is
\* greater than the previous offset, backward when it is true and the
\* offset is at most the previous offset.
C38_OffsetNotification ==
  Subscribed(unsubs, "offset") =>
    \A offset \in ObservedOffsets, scrolling \in BOOLEAN :
      TookReport(AfterNotified(offset, scrolling), offset, scrolling,
                 OffsetNow)


\* C38, amended: while the list is enabled the engine takes each offset
\* notification as stated, the previous offset being the one
\* getScrollOffset() reports. While the list is disabled (and still
\* subscribed) isScrolling is set to the notified value, the direction is
\* that of the report against offset 0, and the offset stays unset and is
\* reported as 0.
C38_OffsetNotificationWhileEnabled ==
  Subscribed(unsubs, "offset") =>
    \A offset \in ObservedOffsets, scrolling \in BOOLEAN :
      IF options.enabled
        THEN TookReport(AfterNotified(offset, scrolling), offset, scrolling,
                        OffsetNow)
        ELSE /\ AfterNotified(offset, scrolling).scrollOffset = None
             /\ getScrollOffset(AfterNotified(offset, scrolling)).val = 0
             /\ AfterNotified(offset, scrolling).isScrolling = scrolling
             /\ AfterNotified(offset, scrolling).scrollDirection =
                  DirectionOf(offset, scrolling, 0)

\* A scroll event reported a greater offset while scrolling.
C38_Witness ==
  /\ lastOp = "offsetEvent"
  /\ options.enabled
  /\ isScrolling
  /\ scrollDirection = "forward"
  /\ scrollOffset = Some(domScrollTop)
  /\ domScrollTop > 0


LargestEnd(measurements, opts) ==
  IF Len(measurements) = 0
    THEN opts.paddingStart
    ELSE SetMax({measurements[i].end : i \in 1..Len(measurements)})

\* C40: getTotalSize() is max(0, E - scrollMargin + paddingEnd), E being the
\* largest end of the items of the measurement sequence getMeasurements()
\* returns (paddingStart for no items), for one lane and more; so it is at
\* least each item's end - scrollMargin + paddingEnd.
C40_TotalSize ==
  /\ getTotalSize(Cur).val =
       Max(0, LargestEnd(Returned, options) - options.scrollMargin
                + options.paddingEnd)
  /\ \A i \in 1..Len(Returned) :
       getTotalSize(Cur).val >=
         Returned[i].end - options.scrollMargin + options.paddingEnd


====
